---- MODULE Spec2Model ----
(***************************************************************************)
(* De-vig / offer-pairing engine of morabets: the aggregation folds of     *)
(* pairing.py, odds_api.py, props_ncaaf.py, the best-price selection and   *)
(* the method-of-victory markets of props_ufc.py, the best prices of       *)
(* routes_ev_plays.py, the per-event loops of the league fetchers, the     *)
(* line filter of app.update_player_props, the price conversions, the      *)
(* license session, the /player_props route and the caches of app.py, the  *)
(* combos of combo_optimizer.py, deduplicate_props, and the probability    *)
(* arithmetic they share.                                                  *)
(*                                                                         *)
(* Probabilities are Python floats (IEEE-754 binary64).  They are modelled *)
(* bit-exactly: a float is a record [m, e] standing for m * 2^e with m a   *)
(* 53-bit natural kept as a little-endian vector of 15-bit limbs, and      *)
(* every operation rounds to nearest, ties to even, as the hardware does.  *)
(***************************************************************************)
EXTENDS Integers, Sequences, FiniteSets, TLC

-----------------------------------------------------------------------------
(* Multi-limb naturals (the 53-bit significands and their double-width     *)
(* intermediate results).                                                  *)

\* the element of a singleton set.  The({f(v) : v \in {e}}) computes e once
\* and f on its value, however often f reads its operand
The(S) == CHOOSE v \in S : TRUE

LimbBase == 2^15
LimbIdx == 1..8

BigZero == <<0, 0, 0, 0, 0, 0, 0, 0>>

\* n is a natural below 2^31
BigOfInt(n) ==
    The({<<v % LimbBase, (v \div LimbBase) % LimbBase,
           v \div (LimbBase * LimbBase), 0, 0, 0, 0, 0>> : v \in {n}})

\* defined for values below 2^30
BigToInt(a) == The({v[1] + LimbBase * v[2] : v \in {a}})

BigIsZero(a) == \E v \in {a} : \A j \in LimbIdx : v[j] = 0

BigLess(a, b) ==
    \E u \in {a}, v \in {b} :
        \E j \in LimbIdx : u[j] < v[j] /\ \A k \in LimbIdx : k > j => u[k] = v[k]

\* limbs n.. of a + b with carry c, appended to acc
RECURSIVE AddLimbs(_, _, _, _, _)
AddLimbs(a, b, n, c, acc) ==
    IF n > Len(a) THEN acc
    ELSE AddLimbs(a, b, n + 1, (a[n] + b[n] + c) \div LimbBase,
                  Append(acc, (a[n] + b[n] + c) % LimbBase))

BigAdd(a, b) == The({AddLimbs(u, v, 1, 0, <<>>) : u \in {a}, v \in {b}})

\* limbs n.. of a - b with borrow c, appended to acc
RECURSIVE SubLimbs(_, _, _, _, _)
SubLimbs(a, b, n, c, acc) ==
    IF n > Len(a) THEN acc
    ELSE SubLimbs(a, b, n + 1, IF a[n] - b[n] - c < 0 THEN 1 ELSE 0,
                  Append(acc, (LimbBase + a[n] - b[n] - c) % LimbBase))

\* a >= b
BigSub(a, b) == The({SubLimbs(u, v, 1, 0, <<>>) : u \in {a}, v \in {b}})

\* limbs n.. of a * k with carry c, appended to acc
RECURSIVE MulLimbs(_, _, _, _, _)
MulLimbs(a, k, n, c, acc) ==
    IF n > Len(a) THEN acc
    ELSE MulLimbs(a, k, n + 1, (a[n] * k + c) \div LimbBase,
                  Append(acc, (a[n] * k + c) % LimbBase))

\* k is a natural of at most 15 bits
BigMulSmall(a, k) == The({MulLimbs(u, v, 1, 0, <<>>) : u \in {a}, v \in {k}})

BigDouble(a) == BigMulSmall(a, 2)

BigInc(a) == BigAdd(a, BigOfInt(1))

\* limb n of a, 0 beyond either end
Limb(a, n) == IF n >= 1 /\ n <= Len(a) THEN a[n] ELSE 0

\* limb n of a \div 2
HalfLimb(a, n) == (Limb(a, n) \div 2) + (Limb(a, n + 1) % 2) * (LimbBase \div 2)

\* a \div 2
BigHalf(a) ==
    The({<<HalfLimb(v, 1), HalfLimb(v, 2), HalfLimb(v, 3), HalfLimb(v, 4),
           HalfLimb(v, 5), HalfLimb(v, 6), HalfLimb(v, 7), HalfLimb(v, 8)>>
         : v \in {a}})

BigLowBit(a) == a[1] % 2

\* bit j (from 0) of a
Bit(a, j) == (Limb(a, (j \div 15) + 1) \div 2^(j % 15)) % 2

\* the number of significant bits of a
BitLenOf(a) ==
    IF BigIsZero(a) THEN 0
    ELSE LET t == CHOOSE j \in LimbIdx :
                     a[j] # 0 /\ \A k \in LimbIdx : k > j => a[k] = 0
             n == CHOOSE c \in 1..15 : 2^c > a[t] /\ 2^(c - 1) <= a[t]
         IN  15 * (t - 1) + n

BitLen(a) == The({BitLenOf(v) : v \in {a}})

\* the limbs of t moved up by q places
MoveLimbs(t, q) ==
    <<Limb(t, 1 - q), Limb(t, 2 - q), Limb(t, 3 - q), Limb(t, 4 - q),
      Limb(t, 5 - q), Limb(t, 6 - q), Limb(t, 7 - q), Limb(t, 8 - q)>>

\* a * 2^k (no bit is shifted out of the top limb)
BigShiftLeft(a, k) ==
    The({The({MoveLimbs(t, v \div 15) : t \in {BigMulSmall(a, 2^(v % 15))}})
         : v \in {k}})

\* limb n of a \div 2^(15 * q + r)
ShiftedLimb(a, n, q, r) ==
    (Limb(a, n + q) \div 2^r) + (Limb(a, n + q + 1) % 2^r) * 2^(15 - r)

\* a shifted right by 15 * q + r bits, the guard bit (the last bit shifted
\* out) and the sticky flag s0 or-ed with the bits shifted out before it
ShiftRightOf(a, q, r, s0) ==
    [m |-> <<ShiftedLimb(a, 1, q, r), ShiftedLimb(a, 2, q, r),
             ShiftedLimb(a, 3, q, r), ShiftedLimb(a, 4, q, r),
             ShiftedLimb(a, 5, q, r), ShiftedLimb(a, 6, q, r),
             ShiftedLimb(a, 7, q, r), ShiftedLimb(a, 8, q, r)>>,
     g |-> IF 15 * q + r >= 1 THEN Bit(a, 15 * q + r - 1) ELSE 0,
     s |-> s0 \/ \E j \in 0..(15 * q + r - 2) : Bit(a, j) = 1]

ShiftRightGS(a, k, s0) ==
    The({ShiftRightOf(u, v \div 15, v % 15, w) : u \in {a}, v \in {k}, w \in {s0}})

Two53 == BigShiftLeft(BigOfInt(1), 53)

-----------------------------------------------------------------------------
(* binary64 values and operations (all operands here are finite, >= 0,     *)
(* and far from the subnormal and overflow ranges).                        *)

FZero == [m |-> BigZero, e |-> 0]

FIsZero(x) == BigIsZero(x.m)

\* round to nearest, ties to even, of a significand whose dropped bits are
\* summarised by guard g and sticky s
RoundEven(m, g, s) ==
    The({IF g = 1 /\ (s \/ BigLowBit(v) = 1) THEN BigInc(v) ELSE v : v \in {m}})

\* the rounded significand r, of 53 or 54 bits, at exponent e
Renormalize(r, e) ==
    IF BigLess(r, Two53) THEN [m |-> r, e |-> e] ELSE [m |-> BigHalf(r), e |-> e + 1]

\* Normalize for a significand m of n bits
NormalizeBits(m, e, sticky, n) ==
    IF n = 0 THEN FZero
    ELSE IF n <= 53 THEN [m |-> BigShiftLeft(m, 53 - n), e |-> e - (53 - n)]
    ELSE The({Renormalize(r, e + (n - 53)) :
                r \in {RoundEven(sh.m, sh.g, sh.s) :
                          sh \in {ShiftRightGS(m, n - 53, sticky)}}})

\* the float nearest to m * 2^e + (a nonzero amount below 2^e if sticky)
Normalize(m, e, sticky) ==
    The({NormalizeBits(u, v, w, BitLenOf(u)) : u \in {m}, v \in {e}, w \in {sticky}})

\* float(n) for a natural n below 2^31 (exact)
FOfInt(n) == Normalize(BigOfInt(n), 0, FALSE)

FOne == FOfInt(1)

\* one step of restoring division by d: the next quotient bit of st.r / d
DivStep(st, d) ==
    The({IF BigLess(r2, d) THEN [q |-> BigDouble(st.q), r |-> r2]
         ELSE [q |-> BigInc(BigDouble(st.q)), r |-> BigSub(r2, d)]
         : r2 \in {BigDouble(st.r)}})

\* restoring division: k >= 1 further quotient bits of st.r / d (st.r < d),
\* appended to the quotient st.q, the first half of them and then the rest
RECURSIVE DivBits(_, _, _)
DivBits(st, d, k) ==
    IF k = 1 THEN DivStep(st, d)
    ELSE The({DivBits(u, d, k - (k \div 2)) : u \in {DivBits(st, d, k \div 2)}})

\* the leading quotient bit of a / b for significands a, b of 53 bits
DivFirst(a, b) ==
    IF BigLess(a, b) THEN [q |-> BigZero, r |-> a]
    ELSE [q |-> BigOfInt(1), r |-> BigSub(a, b)]

\* x / y, y # 0: the leading quotient bit and 55 more, the remainder as
\* sticky, rounded once
FDivOf(x, y) ==
    IF FIsZero(x) THEN FZero
    ELSE The({Normalize(d.q, x.e - y.e - 55, ~BigIsZero(d.r)) :
                d \in {DivBits(u, y.m, 55) : u \in {DivFirst(x.m, y.m)}}})

FDiv(x, y) == The({FDivOf(u, v) : u \in {x}, v \in {y}})

Min(a, b) == IF a < b THEN a ELSE b

\* x + y
FAddOf(x, y) ==
    IF FIsZero(x) THEN y
    ELSE IF FIsZero(y) THEN x
    ELSE Normalize(BigAdd(BigShiftLeft(x.m, x.e - Min(x.e, y.e)),
                          BigShiftLeft(y.m, y.e - Min(x.e, y.e))),
                   Min(x.e, y.e), FALSE)

FAdd(x, y) == The({FAddOf(u, v) : u \in {x}, v \in {y}})

\* x - y for x >= y
FSubOf(x, y) ==
    IF FIsZero(y) THEN x
    ELSE Normalize(BigSub(BigShiftLeft(x.m, x.e - Min(x.e, y.e)),
                          BigShiftLeft(y.m, y.e - Min(x.e, y.e))),
                   Min(x.e, y.e), FALSE)

FSub(x, y) == The({FSubOf(u, v) : u \in {x}, v \in {y}})

\* Python round(x, 4) for 0 <= x < 2, as the integer n with round(x, 4) =
\* n / 10^4: the decimal nearest to the exact binary value of x, ties to even
Round4Of(x) ==
    IF FIsZero(x) THEN 0
    ELSE The({BigToInt(RoundEven(r.m, r.g, r.s)) :
                r \in {IF x.e >= 0
                       THEN [m |-> BigShiftLeft(BigMulSmall(x.m, 10000), x.e),
                             g |-> 0, s |-> FALSE]
                       ELSE ShiftRightGS(BigMulSmall(x.m, 10000), 0 - x.e, FALSE)}})

Round4(x) == The({Round4Of(v) : v \in {x}})

-----------------------------------------------------------------------------
(* Values of the feed.  A Python None in a string field is NULL; a price   *)
(* is an int, None, or a non-numeric string such as "N/A"; a line is a     *)
(* decimal numeral n / 10^s (0.5 is [n = 5, s = 1], "0.50" is [n = 50,     *)
(* s = 2]) or None.                                                        *)

NULL == "<None>"

IntOdds(v) == [t |-> "int", v |-> v]
NoneOdds == [t |-> "none", v |-> 0]
TextOdds == [t |-> "str", v |-> 0]

NumLine(n, s) == [t |-> "num", n |-> n, s |-> s]
NoneLine == [t |-> "none", n |-> 0, s |-> 0]

\* str.strip() on the strings of the model
Strip(s) ==
    CASE s = "draftkings " -> "draftkings"
      [] s = "DraftKings " -> "DraftKings"
      [] s = " Judge"      -> "Judge"
      [] s = "MLB "        -> "MLB"
      [] OTHER             -> s

\* str.lower() on the strings of the model
Lower(s) ==
    CASE s = "Over"       -> "over"
      [] s = "Under"      -> "under"
      [] s = "OVER"       -> "over"
      [] s = "Yes"        -> "yes"
      [] s = "No"         -> "no"
      [] s = "Judge"      -> "judge"
      [] s = "Soto"       -> "soto"
      [] s = "FanDuel"    -> "fanduel"
      [] s = "DraftKings" -> "draftkings"
      [] s = "BetMGM"     -> "betmgm"
      [] s = "Caesars"    -> "caesars"
      [] s = "Home"       -> "home"
      [] s = "Away"       -> "away"
      [] s = "ABC123"     -> "abc123"
      [] s = "MLB"        -> "mlb"
      [] s = "CFB"        -> "cfb"
      [] OTHER            -> s

\* str.upper() on the league names
Upper(s) ==
    CASE s = "mlb" -> "MLB"
      [] s = "abc123" -> "ABC123"
      [] s = "zzz999" -> "ZZZ999"
      [] s = "mora-king" -> "MORA-KING"
      [] OTHER     -> s

-----------------------------------------------------------------------------
(* probability.py (imported by novig.py and odds_api.py).                  *)

\* american_to_implied: 100/(p+100) for p > 0, |p|/(|p|+100) otherwise
ImpliedOf(o) ==
    IF o > 0 THEN FDiv(FOfInt(100), FOfInt(o + 100))
    ELSE FDiv(FOfInt(0 - o), FOfInt(100 - o))

\* fair_probs_from_two_sided: proportional normalisation of the two implied
\* probabilities; (None, None) when their sum is not positive
FairOfImplied(ia, ib, z) ==
    IF FIsZero(z) THEN [none |-> TRUE, over |-> FZero, under |-> FZero]
    ELSE [none |-> FALSE, over |-> FDiv(ia, z), under |-> FDiv(ib, z)]

FairProbsOf(a, b) ==
    The({The({FairOfImplied(ia, ib, z) : z \in {FAdd(ia, ib)}}) :
            ia \in {ImpliedOf(a)}, ib \in {ImpliedOf(b)}})

\* the integer prices of the model
ModelPrices == {-150, -145, -125, -120, -115, -110, 0, 104, 105, 125, 130}

\* ImpliedOf and FairProbsOf are computed once for the prices of the model
ImpliedTab == {<<o, ImpliedOf(o)>> : o \in ModelPrices}
FairProbsTab == {<<a, b, FairProbsOf(a, b)>> : a \in ModelPrices, b \in ModelPrices}

american_to_implied(o) == (CHOOSE t \in ImpliedTab : t[1] = o)[2]

fair_probs_from_two_sided(a, b) ==
    (CHOOSE t \in FairProbsTab : t[1] = a /\ t[2] = b)[3]

-----------------------------------------------------------------------------
(* novig.py                                                                *)

american_to_prob(odds) == american_to_implied(odds)

novig_two_way(over_odds, under_odds) ==
    The({IF f.none
         THEN <<american_to_implied(over_odds), american_to_implied(under_odds)>>
         ELSE <<f.over, f.under>>
         : f \in {fair_probs_from_two_sided(over_odds, under_odds)}})

is_valid_odds(odds) == odds.t # "none" /\ ~(odds.t = "int" /\ odds.v = 0)

\* int(price) raises ValueError on a non-numeric string
IntRaises(odds) == odds.t # "int"

-----------------------------------------------------------------------------
(* pairing.py                                                              *)

\* _normalize_point: Decimal(str(val)).quantize(Decimal('0.001')), as the
\* number of thousandths that the 3-dp string denotes (numerals of at most
\* three decimals)
StrPoint(val) ==
    IF val.t = "none" THEN [t |-> "none", v |-> 0]
    ELSE [t |-> "dec", v |-> val.n]
_normalize_point(val) ==
    IF val.t = "none" THEN [t |-> "none", v |-> 0]
    ELSE [t |-> "dec", v |-> val.n * 10^(3 - val.s)]

\* an unset side of an entry (None) and a retained quote
NoQuote == [set |-> FALSE, price |-> 0, book |-> ""]
Quote(price, book) == [set |-> TRUE, price |-> price, book |-> book]

\* A dict keyed by (player, stat, line) is the sequence of its items in
\* insertion order, which is the order Python iterates it in.
KeyIndexNone(d, key) == 0
KeyIndex(d, key) ==
    IF \E n \in 1..Len(d) : d[n].key = key
    THEN CHOOSE n \in 1..Len(d) : d[n].key = key
    ELSE 0

\* grouped[key], the defaultdict's default when the key is new
EntryOf(d, key) ==
    IF KeyIndex(d, key) = 0
    THEN [key |-> key, over |-> NoQuote, under |-> NoQuote, matchup |-> ""]
    ELSE d[KeyIndex(d, key)]

PutEntry(d, e) ==
    IF KeyIndex(d, e.key) = 0 THEN Append(d, e)
    ELSE [d EXCEPT ![KeyIndex(d, e.key)] = e]

SideOf(e, side) == IF side = "over" THEN e.over ELSE e.under

WithSide(e, side, q) ==
    IF side = "over" THEN [e EXCEPT !.over = q] ELSE [e EXCEPT !.under = q]

\* "Prefer FanDuel, otherwise keep first seen" (build_props_novig)
KeepFirstSeenNovig(current) == ~current.set
KeepNovig(current) == ~current.set \/ current.book # "fanduel"

\* the locals that one iteration of the offers loop reads from the offer
\* (lines 109-115; defined when no string field of the offer is None)
OfferFields(offer) ==
    [player  |-> Strip(offer.player),
     stat    |-> Strip(offer.stat),
     line    |-> _normalize_point(offer.line),
     side    |-> Lower(offer.side),
     odds    |-> offer.odds,
     book    |-> Strip(offer.book),
     matchup |-> Strip(offer.matchup)]

\* key = (player, stat, line)
KeyOf(f) == [player |-> f.player, stat |-> f.stat, line |-> f.line]

\* all([player, stat, line, side in ("over", "under"), is_valid_odds(odds)])
AllPresent(f) ==
    /\ f.player # ""
    /\ f.stat # ""
    /\ f.line.t # "none"
    /\ f.side \in {"over", "under"}
    /\ is_valid_odds(f.odds)

\* grouped[key][side] = {price, book} and the matchup of the key, if unset
Retain(grouped, f) ==
    The({PutEntry(grouped, IF e.matchup = "" THEN [e EXCEPT !.matchup = f.matchup]
                                             ELSE e)
         : e \in {WithSide(EntryOf(grouped, KeyOf(f)), f.side,
                           Quote(f.odds.v, f.book))}})

\* lines 117-133 for an offer with fields f
FoldFields(grouped, f) ==
    IF ~AllPresent(f) THEN [grouped |-> grouped, raised |-> FALSE]
    ELSE IF ~KeepNovig(SideOf(EntryOf(grouped, KeyOf(f)), f.side))
    THEN [grouped |-> grouped, raised |-> FALSE]
    ELSE IF IntRaises(f.odds) THEN [grouped |-> grouped, raised |-> TRUE]
    ELSE [grouped |-> Retain(grouped, f), raised |-> FALSE]

\* one iteration of the offers loop of build_props_novig: [grouped, raised]
\* after it.  None in a field read with .get(k, "") raises AttributeError on
\* .strip() / .lower()
BuildPropsFold(grouped, offer) ==
    IF NULL \in {offer.player, offer.stat, offer.side, offer.book, offer.matchup}
    THEN [grouped |-> grouped, raised |-> TRUE]
    ELSE The({FoldFields(g, f) : g \in {grouped}, f \in {OfferFields(offer)}})

\* the rounded no-vig pair of a two-sided market (lines 173-175), in units
\* of 10^-4
TwoWayFair(over_price, under_price) ==
    The({[over |-> Round4(p[1]), under |-> Round4(p[2])]
         : p \in {novig_two_way(over_price, under_price)}})

\* the rounded implied probability of the quoted side and its complement
\* (lines 180-186), in units of 10^-4
SingleFair(price) ==
    The({[quoted |-> Round4(p), other |-> Round4(FSub(FOne, p))]
         : p \in {american_to_prob(price)}})

-----------------------------------------------------------------------------
(* Pairing of the outcomes of an Odds API event: pairing._pair_outcomes,   *)
(* odds_api._pair_outcomes and props_ncaaf._pair_outcomes.  A bookmaker is *)
(* [key, title, markets], a market [key, outcomes], an outcome [name,      *)
(* description, point, price].                                             *)

\* Python's "a or b" on strings and None
OrElse(a, b) == IF a # NULL /\ a # "" THEN a ELSE b

\* "w in s" on the (stripped, lower-case) strings of the model
Contains(s, w) == s = w

\* _resolve_side_and_player(name, desc): [side, player], side NULL for None
ResolveOf(n, d) ==
    IF Lower(n) \in {"over", "under"} THEN [side |-> Lower(n), player |-> OrElse(d, n)]
    ELSE IF Lower(d) \in {"over", "under"}
        THEN [side |-> Lower(d), player |-> OrElse(n, d)]
    ELSE IF Contains(Lower(n), "over") THEN [side |-> "over", player |-> OrElse(d, n)]
    ELSE IF Contains(Lower(n), "under") THEN [side |-> "under", player |-> OrElse(d, n)]
    ELSE IF Contains(Lower(d), "over") THEN [side |-> "over", player |-> OrElse(n, d)]
    ELSE IF Contains(Lower(d), "under") THEN [side |-> "under", player |-> OrElse(n, d)]
    ELSE [side |-> NULL, player |-> NULL]

_resolve_side_and_player(name, desc) ==
    ResolveOf(Strip(OrElse(name, "")), Strip(OrElse(desc, "")))

\* the outcomes of the markets whose key is stat_key, in feed order
RECURSIVE OutcomesOf(_, _)
OutcomesOf(markets, stat_key) ==
    IF markets = <<>> THEN <<>>
    ELSE (IF Head(markets).key = stat_key THEN Head(markets).outcomes ELSE <<>>)
            \o OutcomesOf(Tail(markets), stat_key)

\* (bookmaker.get("key") or bookmaker.get("title") or "").strip().lower()
BookName(bookmaker) == Lower(Strip(OrElse(bookmaker.key, OrElse(bookmaker.title, ""))))

\* sidebook[key][side] = {"price": int(price), "book": book_name}
SetSide(sidebook, key, side, price, book) ==
    IF IntRaises(price) THEN [grouped |-> sidebook, raised |-> TRUE]
    ELSE [grouped |-> PutEntry(sidebook, WithSide(EntryOf(sidebook, key), side,
                                                  Quote(price.v, book))),
          raised |-> FALSE]

PairKey(player, stat_key, point) == [player |-> player, stat |-> stat_key, line |-> point]

\* "Prefer FanDuel, otherwise keep first seen" (pairing._pair_outcomes)
KeepPair(current) == ~current.set \/ current.book # "fanduel"

\* pairing._pair_outcomes, the body of the outcomes loop (lines 70-90)
PairOutcome(sidebook, book_name, stat_key, o) ==
    The({IF r.side \notin {"over", "under"} \/ r.player \in {NULL, ""}
            THEN [grouped |-> sidebook, raised |-> FALSE]
         ELSE IF ~is_valid_odds(o.price) THEN [grouped |-> sidebook, raised |-> FALSE]
         ELSE IF KeepPair(SideOf(EntryOf(sidebook,
                    PairKey(r.player, stat_key, _normalize_point(o.point))), r.side))
            THEN SetSide(sidebook, PairKey(r.player, stat_key, _normalize_point(o.point)),
                         r.side, o.price, book_name)
         ELSE [grouped |-> sidebook, raised |-> FALSE]
         : r \in {_resolve_side_and_player(o.name, o.description)}})

\* _norm_point of odds_api.py
_norm_point(val) == _normalize_point(val)

\* "Prefer FanDuel if duplicates" (odds_api._pair_outcomes)
KeepApi(current) == ~current.set \/ current.book # "fanduel"

\* odds_api._pair_outcomes, the body of the outcomes loop (lines 71-83)
ApiOutcome(sidebook, book_name, stat_key, o) ==
    The({IF r.side \notin {"over", "under"} \/ r.player \in {NULL, ""}
            THEN [grouped |-> sidebook, raised |-> FALSE]
         ELSE IF o.price.t = "none" THEN [grouped |-> sidebook, raised |-> FALSE]
         ELSE IF KeepApi(SideOf(EntryOf(sidebook,
                    PairKey(r.player, stat_key, _norm_point(o.point))), r.side))
            THEN SetSide(sidebook, PairKey(r.player, stat_key, _norm_point(o.point)),
                         r.side, o.price, book_name)
         ELSE [grouped |-> sidebook, raised |-> FALSE]
         : r \in {_resolve_side_and_player(o.name, o.description)}})

\* the side of an outcome in props_ncaaf: yes / anytime_td count as over,
\* no as under (lines 39, 45-46)
NcaafSide(name) ==
    LET side == Lower(OrElse(name, "")) IN
    IF side \in {"over", "under"} THEN side
    ELSE IF side \in {"yes", "anytime_td"} THEN "over"
    ELSE IF side = "no" THEN "under"
    ELSE side

\* "not pairs[k][side]": the first quote of a side is kept
KeepNcaaf(current) == ~current.set

\* props_ncaaf._pair_outcomes, the body of the outcomes loop (lines 38-52);
\* the key holds the point as the feed gives it
NcaafOutcome(pairs, bkey, stat_key, o) ==
    The({IF name = "" \/ o.price.t = "none" THEN [grouped |-> pairs, raised |-> FALSE]
         ELSE IF IntRaises(o.price) THEN [grouped |-> pairs, raised |-> TRUE]
         ELSE IF NcaafSide(o.name) \in {"over", "under"}
                 /\ KeepNcaaf(SideOf(EntryOf(pairs, PairKey(name, stat_key, o.point)),
                                     NcaafSide(o.name)))
            THEN SetSide(pairs, PairKey(name, stat_key, o.point), NcaafSide(o.name),
                         o.price, bkey)
         ELSE [grouped |-> pairs, raised |-> FALSE]
         : name \in {OrElse(o.description, OrElse(o.name, ""))}})

\* the outcomes loops of one bookmaker, outcome by outcome, for the pairing
\* function fn; an exception ends them
RECURSIVE FoldOutcomes(_, _, _, _, _)
FoldOutcomes(fn, acc, book, stat_key, outs) ==
    IF outs = <<>> \/ acc.raised THEN acc
    ELSE The({FoldOutcomes(fn, r, book, stat_key, Tail(outs))
              : r \in {CASE fn = "pairing"  -> PairOutcome(acc.grouped, book, stat_key, Head(outs))
                         [] fn = "odds_api" -> ApiOutcome(acc.grouped, book, stat_key, Head(outs))
                         [] fn = "ncaaf"    -> NcaafOutcome(acc.grouped, book, stat_key, Head(outs))}})

\* the markets of a bookmaker: "bookmaker.get("markets") or []" in pairing.py
\* and odds_api.py, and b.get("markets", []) in props_ncaaf.py, where a None
\* raises TypeError
PairBookmaker(fn, sidebook, bookmaker, stat_key) ==
    IF bookmaker.markets.none
    THEN [grouped |-> sidebook, raised |-> fn = "ncaaf"]
    ELSE FoldOutcomes(fn, [grouped |-> sidebook, raised |-> FALSE],
                      IF fn = "ncaaf" THEN bookmaker.key ELSE BookName(bookmaker),
                      stat_key, OutcomesOf(bookmaker.markets.items, stat_key))

-----------------------------------------------------------------------------
(* props_ufc._collect_ml: the moneyline quote kept per fighter.            *)

UFC_ML_MARKET == "h2h"

Abs(n) == IF n < 0 THEN 0 - n ELSE n

\* best = {a: None, b: None}
NoBest == [a |-> NoQuote, b |-> NoQuote]

BestOf(best, fighters, name) == IF name = fighters[1] THEN best.a ELSE best.b

WithBest(best, fighters, name, q) ==
    IF name = fighters[1] THEN [best EXCEPT !.a = q] ELSE [best EXCEPT !.b = q]

\* choose = (cur is None) or (abs(price) < abs(cur["price"]))
ChooseMl(cur, price) == ~cur.set \/ Abs(price) < Abs(cur.price)

\* the body of the outcomes loop (lines 33-38); abs() and int() raise on a
\* non-numeric price
MlOutcome(best, bk, fighters, o) ==
    The({IF name \notin {fighters[1], fighters[2]} \/ o.price.t = "none"
            THEN [grouped |-> best, raised |-> FALSE]
         ELSE IF IntRaises(o.price) THEN [grouped |-> best, raised |-> TRUE]
         ELSE IF ChooseMl(BestOf(best, fighters, name), o.price.v)
            THEN [grouped |-> WithBest(best, fighters, name, Quote(o.price.v, bk)),
                  raised |-> FALSE]
         ELSE [grouped |-> best, raised |-> FALSE]
         : name \in {OrElse(o.name, o.description)}})

RECURSIVE MlOutcomes(_, _, _, _)
MlOutcomes(acc, bk, fighters, outs) ==
    IF outs = <<>> \/ acc.raised THEN acc
    ELSE The({MlOutcomes(r, bk, fighters, Tail(outs))
              : r \in {MlOutcome(acc.grouped, bk, fighters, Head(outs))}})

\* one bookmaker of the loop of lines 28-38; bkr.get("markets", []) raises
\* TypeError on None
MlBookmaker(best, bkr, fighters) ==
    IF bkr.markets.none THEN [grouped |-> best, raised |-> TRUE]
    ELSE MlOutcomes([grouped |-> best, raised |-> FALSE], bkr.key, fighters,
                    OutcomesOf(bkr.markets.items, UFC_ML_MARKET))

\* novig_multi.novig_two_way: the two implied probabilities over their sum
novig_multi_two_way(pa, pb) ==
    The({<<f.over, f.under>> : f \in {fair_probs_from_two_sided(pa, pb)}})

MlRow(fighter, opponent, q, prob) ==
    [type |-> "ml", fighter |-> fighter, opponent |-> opponent,
     shop |-> [american |-> q.price, book |-> q.book], fair |-> prob]

\* rows (lines 39-56); fair.american, a rendering of fair.prob, is left out
MlRows(best, fighters) ==
    IF best.a.set /\ best.b.set
    THEN The({<<MlRow(fighters[1], fighters[2], best.a, f[1]),
                MlRow(fighters[2], fighters[1], best.b, f[2])>>
              : f \in {novig_multi_two_way(best.a.price, best.b.price)}})
    ELSE <<>>

-----------------------------------------------------------------------------
(* routes_ev_plays: the best moneyline price per side of an event.         *)

\* american_to_decimal(p) as the fraction DecNum(p) / DecDen(p); prices of
\* the model are integers, for which the float decimals compare as the
\* fractions do
DecNum(p) == IF p > 0 THEN 100 + p ELSE 100 - p
DecDen(p) == IF p > 0 THEN 100 ELSE 0 - p
DecimalGreater(p, q) == DecNum(p) * DecDen(q) > DecNum(q) * DecDen(p)

\* str(o.get("name", "")).lower()
NameLower(name) == IF name = NULL THEN "none" ELSE Lower(name)

\* best is None or cand["decimal"] > best["decimal"]
Better(best, price) == ~best.set \/ DecimalGreater(price, best.price)

\* _best_price_outcome: [best, raised] after the outcomes outs; a price that
\* _to_float rejects is skipped, and american_to_decimal(0) divides by zero
RECURSIVE _best_price_outcome(_, _, _)
_best_price_outcome(acc, outs, side_name) ==
    IF outs = <<>> \/ acc.raised THEN acc
    ELSE The({_best_price_outcome(r, Tail(outs), side_name)
              : r \in {LET o == Head(outs) IN
                       IF NameLower(o.name) # side_name \/ o.price.t # "int" THEN acc
                       ELSE IF o.price.v = 0 THEN [best |-> acc.best, raised |-> TRUE]
                       ELSE IF Better(acc.best, o.price.v)
                           THEN [best |-> Quote(o.price.v, ""), raised |-> FALSE]
                       ELSE acc}})

BestPrice(m, side_name) ==
    _best_price_outcome([best |-> NoQuote, raised |-> FALSE], m.outcomes, side_name)

\* out["h2h"] is None
NoH2h == [none |-> TRUE, home |-> NoQuote, away |-> NoQuote]

\* if cur: ... if (not prev_side) or (cur["decimal"] > prev_side["decimal"])
KeepBetter(prev_side, cur, bname) ==
    IF cur.set /\ Better(prev_side, cur.price) THEN Quote(cur.price, bname)
    ELSE prev_side

\* the h2h branch for one market of a bookmaker (lines 98-114)
H2hMarket(h2h, bname, m) ==
    IF m.key # "h2h" THEN [grouped |-> h2h, raised |-> FALSE]
    ELSE The({IF bh.raised \/ ba.raised THEN [grouped |-> h2h, raised |-> TRUE]
              ELSE [grouped |-> [none |-> FALSE,
                                 home |-> KeepBetter(h2h.home, bh.best, bname),
                                 away |-> KeepBetter(h2h.away, ba.best, bname)],
                    raised |-> FALSE]
              : bh \in {BestPrice(m, "home")}, ba \in {BestPrice(m, "away")}})

RECURSIVE H2hMarkets(_, _, _)
H2hMarkets(acc, bname, markets) ==
    IF markets = <<>> \/ acc.raised THEN acc
    ELSE The({H2hMarkets(r, bname, Tail(markets))
              : r \in {H2hMarket(acc.grouped, bname, Head(markets))}})

\* _collect_best_from_event, one bookmaker of the loop of line 96 (events of
\* the model carry no "spreads" market)
_collect_best_from_event(h2h, bk) ==
    H2hMarkets([grouped |-> h2h, raised |-> FALSE],
               OrElse(bk.title, OrElse(bk.key, "unknown")),
               IF bk.markets.none THEN <<>> ELSE bk.markets.items)

-----------------------------------------------------------------------------
(* The rows built from a paired sidebook: odds_api.fetch_player_props with *)
(* _attach_fair_or_implied, and props_ncaaf.fetch_ncaaf_player_props with  *)
(* _attach_fair.                                                           *)

\* round(p, 4) and round(1.0 - p, 4) for the implied probability of price
ImpliedPair(price) ==
    The({[p |-> Round4(p), q |-> Round4(FSub(FOne, p))]
         : p \in {american_to_implied(price)}})

\* _attach_fair_or_implied: row["fair"], probabilities in units of 10^-4
\* (fair.american, a rendering of the probabilities, is left out)
_attach_fair_or_implied(over, under, bookmaker, odds) ==
    The({IF over.set /\ under.set /\ ~f.none
            THEN [over |-> Round4(f.over), under |-> Round4(f.under),
                  book |-> OrElse(over.book, OrElse(under.book, OrElse(bookmaker, "")))]
         ELSE IF over.set /\ ~under.set
            THEN [over |-> ImpliedPair(over.price).p, under |-> ImpliedPair(over.price).q,
                  book |-> OrElse(over.book, OrElse(bookmaker, ""))]
         ELSE IF under.set /\ ~over.set
            THEN [over |-> ImpliedPair(under.price).q, under |-> ImpliedPair(under.price).p,
                  book |-> OrElse(under.book, OrElse(bookmaker, ""))]
         ELSE [over |-> ImpliedPair(odds).p, under |-> ImpliedPair(odds).q,
               book |-> OrElse(bookmaker, "")]
         : f \in {IF over.set /\ under.set
                  THEN fair_probs_from_two_sided(over.price, under.price)
                  ELSE [none |-> TRUE, over |-> FZero, under |-> FZero]}})

\* the row of one key of the sidebook (fetch_player_props, lines 569-593)
ApiRow(entry) ==
    LET one == IF entry.over.set THEN entry.over ELSE entry.under IN
    [player |-> entry.key.player, stat |-> entry.key.stat, line |-> entry.key.line,
     shop |-> [over |-> entry.over, under |-> entry.under],
     bookmaker |-> one.book, odds |-> one.price,
     fair |-> _attach_fair_or_implied(entry.over, entry.under, one.book, one.price)]

\* a probability of fair["prob"], or its absence
NoProb == [set |-> FALSE, p |-> FZero]
Prob(p) == [set |-> TRUE, p |-> p]

\* _attach_fair: fair["prob"] and row["book"]
_attach_fair(over, under) ==
    IF over.set /\ under.set
    THEN The({[over |-> Prob(p[1]), under |-> Prob(p[2]), book |-> over.book]
              : p \in {novig_two_way(over.price, under.price)}})
    ELSE IF over.set
    THEN [over |-> Prob(american_to_prob(over.price)), under |-> NoProb,
          book |-> over.book]
    ELSE [over |-> NoProb, under |-> Prob(american_to_prob(under.price)),
          book |-> under.book]

NcaafMatchup == "Navy @ Army"

\* the row of one key of the sidebook (fetch_ncaaf_player_props, lines 103-116)
NcaafRow(entry) ==
    The({[league |-> "ncaaf", matchup |-> NcaafMatchup,
          player |-> entry.key.player, stat |-> entry.key.stat, line |-> entry.key.line,
          shop |-> [over |-> entry.over, under |-> entry.under],
          side |-> IF entry.over.set /\ entry.under.set THEN "both"
                   ELSE IF entry.over.set THEN "over" ELSE "under",
          fair |-> [over |-> f.over, under |-> f.under],
          book |-> f.book]
         : f \in {_attach_fair(entry.over, entry.under)}})

\* x < y for floats >= 0
FLess(x, y) ==
    IF FIsZero(y) THEN FALSE
    ELSE IF FIsZero(x) THEN TRUE
    ELSE IF x.e # y.e THEN x.e < y.e
    ELSE BigLess(x.m, y.m)

\* keyfn: the fair over probability, or 0.0
SortKey(row) == IF row.fair.over.set THEN row.fair.over.p ELSE FZero

\* row put into the rows sorted by key, largest first, behind its equals
RECURSIVE InsertByKey(_, _)
InsertByKey(sorted, row) ==
    IF sorted = <<>> THEN <<row>>
    ELSE IF FLess(SortKey(Head(sorted)), SortKey(row)) THEN <<row>> \o sorted
    ELSE <<Head(sorted)>> \o InsertByKey(Tail(sorted), row)

\* all_props.sort(key=keyfn, reverse=True), a stable sort
RECURSIVE SortRows(_, _)
SortRows(sorted, rows) ==
    IF rows = <<>> THEN sorted
    ELSE The({SortRows(t, Tail(rows)) : t \in {InsertByKey(sorted, Head(rows))}})

-----------------------------------------------------------------------------
(* The inputs of the model.                                                *)

\* the longest input list
MaxOffers == 3

SeqsUpTo(S, n) == UNION {[1..k -> S] : k \in 0..n}

\* a flat offer as app.fetch_player_prop_offers_flat builds it
Offer(side, odds, book) ==
    [player |-> "Judge", stat |-> "batter_hits", line |-> NumLine(5, 1),
     side |-> side, odds |-> odds, book |-> book, matchup |-> "NYY @ BOS"]

OfferPool ==
    { Offer("Over", IntOdds(-125), "fanduel"),
      Offer("under", IntOdds(104), "fanduel"),
      Offer("over", IntOdds(-110), "draftkings"),
      [Offer("under", IntOdds(-110), "draftkings ") EXCEPT !.line = NumLine(50, 2)],
      Offer("over", IntOdds(105), "betmgm"),
      Offer("under", IntOdds(-125), "betmgm"),
      [Offer("over", IntOdds(-120), "draftkings")
          EXCEPT !.line = NumLine(35, 1), !.matchup = ""],
      Offer("over", IntOdds(0), "draftkings"),
      Offer("under", NoneOdds, "betmgm"),
      Offer("over", TextOdds, "draftkings"),
      Offer("Yes", IntOdds(-115), "betmgm"),
      [Offer("over", IntOdds(-110), "draftkings") EXCEPT !.player = NULL],
      [Offer("under", IntOdds(-110), "draftkings") EXCEPT !.player = ""],
      [Offer("under", IntOdds(-110), "draftkings") EXCEPT !.line = NoneLine] }

\* Odds API bookmakers quoting player props
Outcome(name, description, point, price) ==
    [name |-> name, description |-> description, point |-> point, price |-> price]
Market(key, outcomes) == [key |-> key, outcomes |-> outcomes]
Bookmaker(key, title, markets) ==
    [key |-> key, title |-> title, markets |-> [none |-> FALSE, items |-> markets]]

StatKey == "batter_hits"

Hits(outcomes) == <<Market(StatKey, outcomes)>>

PropBookmakers ==
    { Bookmaker("fanduel", "FanDuel",
        Hits(<<Outcome("Over", "Judge", NumLine(5, 1), IntOdds(-125)),
               Outcome("Under", "Judge", NumLine(5, 1), IntOdds(104))>>)),
      Bookmaker(NULL, "DraftKings ",
        Hits(<<Outcome("Over", "Judge", NumLine(50, 2), IntOdds(-110)),
               Outcome("Under", "Judge", NumLine(5, 1), IntOdds(-110))>>)),
      Bookmaker("betmgm", "BetMGM",
        Hits(<<Outcome("Over", "Judge", NumLine(5, 1), IntOdds(105)),
               Outcome("Under", "Judge", NumLine(5, 1), IntOdds(-125))>>)),
      Bookmaker("draftkings", "DraftKings",
        <<Market("batter_home_runs",
                 <<Outcome("Over", "Judge", NumLine(5, 1), IntOdds(125))>>),
          Market(StatKey,
                 <<Outcome("Judge", "Over", NumLine(35, 1), IntOdds(-120))>>)>>),
      Bookmaker("draftkings", "DraftKings",
        Hits(<<Outcome("Over", "Judge", NumLine(5, 1), IntOdds(0))>>)),
      Bookmaker("fanduel", "FanDuel",
        Hits(<<Outcome("Over", "Judge", NumLine(5, 1), IntOdds(0))>>)),
      Bookmaker("betmgm", "BetMGM",
        Hits(<<Outcome("Under", "Judge", NumLine(5, 1), NoneOdds)>>)),
      Bookmaker("draftkings", "DraftKings",
        Hits(<<Outcome("Over", "Judge", NumLine(5, 1), TextOdds)>>)),
      Bookmaker("betmgm", "BetMGM",
        Hits(<<Outcome("Yes", "Judge", NoneLine, IntOdds(-115))>>)),
      [key |-> "betmgm", title |-> "BetMGM", markets |-> [none |-> TRUE, items |-> <<>>]] }

\* Odds API bookmakers quoting the moneyline of a fight
Fighters == <<"Jones", "Miocic">>

Moneyline(a, b) ==
    <<Market("h2h", <<Outcome("Jones", NULL, NoneLine, a),
                      Outcome("Miocic", NULL, NoneLine, b)>>)>>

UfcBookmakers ==
    { Bookmaker("fanduel", "FanDuel", Moneyline(IntOdds(-150), IntOdds(130))),
      Bookmaker("draftkings", "DraftKings", Moneyline(IntOdds(-150), IntOdds(125))),
      Bookmaker("betmgm", "BetMGM", Moneyline(IntOdds(-145), IntOdds(130))),
      Bookmaker("caesars", "Caesars", Moneyline(NoneOdds, IntOdds(125))),
      Bookmaker("caesars", "Caesars", Moneyline(TextOdds, IntOdds(125))),
      [key |-> "betmgm", title |-> "BetMGM", markets |-> [none |-> TRUE, items |-> <<>>]] }

\* Odds API bookmakers quoting the moneyline of a game
HomeAway(a, b) ==
    <<Market("h2h", <<Outcome("Home", NULL, NoneLine, a),
                      Outcome("away", NULL, NoneLine, b)>>)>>

EvBookmakers ==
    { Bookmaker("fanduel", "FanDuel", HomeAway(IntOdds(-150), IntOdds(130))),
      Bookmaker("draftkings", NULL, HomeAway(IntOdds(-150), IntOdds(125))),
      Bookmaker("betmgm", "BetMGM", HomeAway(IntOdds(-145), IntOdds(130))),
      Bookmaker("caesars", "Caesars", HomeAway(IntOdds(0), IntOdds(125))),
      Bookmaker("caesars", "Caesars", HomeAway(TextOdds, NoneOdds)),
      Bookmaker("betmgm", "BetMGM",
                <<Market("totals", <<Outcome("Over", NULL, NumLine(85, 1), IntOdds(-110))>>)>>) }

-----------------------------------------------------------------------------
(* build_props_novig, second half: one prop per grouped key.               *)

League == "mlb"

\* matchup if matchup else f"{league.upper()} Game - {player}"
MatchupKey(entry) ==
    IF entry.matchup # "" THEN [game |-> "", name |-> entry.matchup]
    ELSE [game |-> Upper(League), name |-> entry.key.player]

\* the prop dict of one (player, stat, line), lines 153-187
BuildProp(entry) ==
    LET over  == entry.over
        under == entry.under
        one   == IF over.set THEN over ELSE under
    IN  [player |-> entry.key.player,
         stat   |-> entry.key.stat,
         line   |-> entry.key.line,
         side   |-> IF over.set THEN "over" ELSE "under",
         odds   |-> one.price,
         book   |-> one.book,
         shop   |-> [over |-> over, under |-> under],
         fair   |->
            IF over.set /\ under.set
            THEN LET f == TwoWayFair(over.price, under.price) IN
                 [over |-> f.over, under |-> f.under,
                  book |-> IF over.book = "fanduel" THEN over.book ELSE under.book]
            ELSE LET f == SingleFair(one.price) IN
                 IF over.set
                 THEN [over |-> f.quoted, under |-> f.other, book |-> one.book]
                 ELSE [over |-> f.other, under |-> f.quoted, book |-> one.book]]

\* grouped_props after the loop body for one item of grouped, lines 138-189
EmitProp(grouped_props, entry) ==
    IF ~entry.over.set /\ ~entry.under.set THEN grouped_props
    ELSE LET mk == MatchupKey(entry)
             n  == KeyIndex(grouped_props, mk)
         IN  IF n = 0
             THEN Append(grouped_props, [key |-> mk, props |-> <<BuildProp(entry)>>])
             ELSE [grouped_props EXCEPT ![n].props = Append(@, BuildProp(entry))]

\* grouped_props = {} (line 136)
StaleGroupedProps(old) == old
NewGroupedProps(old) == <<>>

-----------------------------------------------------------------------------
(* The state machine: one call of an aggregation function on an input,     *)
(* followed, for the functions whose repeatability is in question, by a    *)
(* second call on the input offers2.                                       *)

VARIABLES
    prog,      \* the function under execution
    offers,    \* its input: [none, items], none for a None argument
    offers2,   \* the input of the second call
    run,       \* 1 or 2
    pc,        \* "start", "fold", "emit", "done", "raised"
    cursor,    \* the position of the current loop in its sequence
    grouped,   \* the accumulator of the fold (grouped / sidebook / best)
    out,       \* the value under construction for return
    first      \* what the first call ended with

vars == <<prog, offers, offers2, run, pc, cursor, grouped, out, first>>

List(s) == [none |-> FALSE, items |-> s]
NoneList == [none |-> TRUE, items |-> <<>>]

Inputs(pool) == {NoneList} \cup {List(s) : s \in SeqsUpTo(pool, MaxOffers)}

Reversed(l) ==
    [none |-> l.none,
     items |-> [n \in 1..Len(l.items) |-> l.items[Len(l.items) + 1 - n]]]

NoResult == [pc |-> "none", out |-> <<>>]

\* the functions that pair the outcomes of an event, and the name of each in
\* FoldOutcomes
PairProgs == {"pairing._pair_outcomes", "odds_api.fetch_player_props",
              "props_ncaaf.fetch_ncaaf_player_props"}

FnOf(p) ==
    CASE p = "pairing._pair_outcomes"               -> "pairing"
      [] p = "odds_api.fetch_player_props"          -> "odds_api"
      [] p = "props_ncaaf.fetch_ncaaf_player_props" -> "ncaaf"

\* the functions that are called a second time
TwoCallProgs == {"build_props_novig", "_collect_ml", "_collect_best_from_event"}

InitNovig ==
    /\ prog = "build_props_novig"
    /\ offers \in Inputs(OfferPool)
    /\ offers2 = offers

InitPair ==
    /\ prog \in PairProgs
    /\ offers \in Inputs(PropBookmakers)
    /\ offers2 = offers

InitMl ==
    /\ prog = "_collect_ml"
    /\ offers \in Inputs(UfcBookmakers)
    /\ offers2 = Reversed(offers)

InitEv ==
    /\ prog = "_collect_best_from_event"
    /\ offers \in Inputs(EvBookmakers)
    /\ offers2 = Reversed(offers)

Init ==
    /\ (InitNovig \/ InitPair \/ InitMl \/ InitEv)
    /\ run = 1
    /\ pc = "start"
    /\ cursor = 1
    /\ grouped = <<>>
    /\ out = <<>>
    /\ first = NoResult

\* entry of build_props_novig: grouped = defaultdict(...) and the start of
\* "for offer in offers", which raises TypeError on None
BeginBuildProps ==
    /\ prog = "build_props_novig"
    /\ pc = "start"
    /\ pc' = IF offers.none THEN "raised" ELSE "fold"
    /\ grouped' = <<>>
    /\ cursor' = 1
    /\ UNCHANGED <<prog, offers, offers2, run, out, first>>

\* one iteration of "for offer in offers" (lines 108-133)
FoldOffer ==
    /\ prog = "build_props_novig"
    /\ pc = "fold"
    /\ cursor <= Len(offers.items)
    /\ LET r == BuildPropsFold(grouped, offers.items[cursor]) IN
         /\ pc' = IF r.raised THEN "raised" ELSE "fold"
         /\ grouped' = r.grouped
    /\ cursor' = cursor + 1
    /\ UNCHANGED <<prog, offers, offers2, run, out, first>>

\* the offers loop is exhausted: grouped_props = {} (line 136)
EndFold ==
    /\ prog = "build_props_novig"
    /\ pc = "fold"
    /\ cursor > Len(offers.items)
    /\ pc' = "emit"
    /\ cursor' = 1
    /\ out' = NewGroupedProps(out)
    /\ UNCHANGED <<prog, offers, offers2, run, grouped, first>>

\* one iteration of "for (player, stat, line), sides in grouped.items()"
EmitOne ==
    /\ prog = "build_props_novig"
    /\ pc = "emit"
    /\ cursor <= Len(grouped)
    /\ out' = EmitProp(out, grouped[cursor])
    /\ cursor' = cursor + 1
    /\ UNCHANGED <<prog, offers, offers2, run, pc, grouped, first>>

\* return grouped_props (line 191)
ReturnProps ==
    /\ prog = "build_props_novig"
    /\ pc = "emit"
    /\ cursor > Len(grouped)
    /\ pc' = "done"
    /\ UNCHANGED <<prog, offers, offers2, run, cursor, grouped, out, first>>

\* entry of a pairing function: sidebook = defaultdict(...); the loop runs
\* over "bookmakers or []"
BeginPair ==
    /\ prog \in PairProgs
    /\ pc = "start"
    /\ pc' = "fold"
    /\ grouped' = <<>>
    /\ out' = <<>>
    /\ cursor' = 1
    /\ UNCHANGED <<prog, offers, offers2, run, first>>

\* one bookmaker of the loop of _pair_outcomes.  An exception leaves
\* pairing._pair_outcomes; fetch_player_props (lines 543-565) and
\* fetch_ncaaf_player_props (lines 92-100) catch it and go on to build the
\* rows of a sidebook that the failed call has not filled
PairNext ==
    /\ prog \in PairProgs
    /\ pc = "fold"
    /\ cursor <= Len(offers.items)
    /\ LET r == PairBookmaker(FnOf(prog), grouped, offers.items[cursor], StatKey) IN
         /\ pc' = IF ~r.raised THEN "fold"
                  ELSE IF prog = "pairing._pair_outcomes" THEN "raised" ELSE "emit"
         /\ grouped' = IF r.raised /\ prog # "pairing._pair_outcomes" THEN <<>>
                       ELSE r.grouped
         /\ cursor' = IF r.raised /\ prog # "pairing._pair_outcomes" THEN 1
                      ELSE cursor + 1
    /\ UNCHANGED <<prog, offers, offers2, run, out, first>>

\* return sidebook; the callers go on to the rows
EndPair ==
    /\ prog \in PairProgs
    /\ pc = "fold"
    /\ cursor > Len(offers.items)
    /\ pc' = IF prog = "pairing._pair_outcomes" THEN "done" ELSE "emit"
    /\ out' = IF prog = "pairing._pair_outcomes" THEN grouped ELSE <<>>
    /\ cursor' = 1
    /\ UNCHANGED <<prog, offers, offers2, run, grouped, first>>

\* one row of fetch_player_props (lines 569-593)
ApiRowNext ==
    /\ prog = "odds_api.fetch_player_props"
    /\ pc = "emit"
    /\ cursor <= Len(grouped)
    /\ out' = Append(out, ApiRow(grouped[cursor]))
    /\ cursor' = cursor + 1
    /\ UNCHANGED <<prog, offers, offers2, run, pc, grouped, first>>

\* one row of fetch_ncaaf_player_props (lines 103-117)
NcaafRowNext ==
    /\ prog = "props_ncaaf.fetch_ncaaf_player_props"
    /\ pc = "emit"
    /\ cursor <= Len(grouped)
    /\ out' = Append(out, NcaafRow(grouped[cursor]))
    /\ cursor' = cursor + 1
    /\ UNCHANGED <<prog, offers, offers2, run, pc, grouped, first>>

\* the rows are complete; fetch_ncaaf_player_props sorts them (lines 119-123)
EndRows ==
    /\ prog \in PairProgs
    /\ pc = "emit"
    /\ cursor > Len(grouped)
    /\ pc' = "done"
    /\ out' = IF prog = "props_ncaaf.fetch_ncaaf_player_props" THEN SortRows(<<>>, out)
              ELSE out
    /\ UNCHANGED <<prog, offers, offers2, run, cursor, grouped, first>>

\* entry of _collect_ml: best = {a: None, b: None}
BeginMl ==
    /\ prog = "_collect_ml"
    /\ pc = "start"
    /\ pc' = "fold"
    /\ grouped' = NoBest
    /\ out' = <<>>
    /\ cursor' = 1
    /\ UNCHANGED <<prog, offers, offers2, run, first>>

\* one bookmaker of the loop of lines 28-38
MlNext ==
    /\ prog = "_collect_ml"
    /\ pc = "fold"
    /\ cursor <= Len(offers.items)
    /\ LET r == MlBookmaker(grouped, offers.items[cursor], Fighters) IN
         /\ pc' = IF r.raised THEN "raised" ELSE "fold"
         /\ grouped' = r.grouped
    /\ cursor' = cursor + 1
    /\ UNCHANGED <<prog, offers, offers2, run, out, first>>

\* the rows of the two fighters and the return (lines 39-56)
MlReturn ==
    /\ prog = "_collect_ml"
    /\ pc = "fold"
    /\ cursor > Len(offers.items)
    /\ pc' = "done"
    /\ out' = MlRows(grouped, Fighters)
    /\ UNCHANGED <<prog, offers, offers2, run, cursor, grouped, first>>

\* entry of _collect_best_from_event: out = {"h2h": None, ...}
BeginEv ==
    /\ prog = "_collect_best_from_event"
    /\ pc = "start"
    /\ pc' = "fold"
    /\ grouped' = NoH2h
    /\ out' = <<>>
    /\ cursor' = 1
    /\ UNCHANGED <<prog, offers, offers2, run, first>>

\* one bookmaker of the loop of line 96
EvNext ==
    /\ prog = "_collect_best_from_event"
    /\ pc = "fold"
    /\ cursor <= Len(offers.items)
    /\ LET r == _collect_best_from_event(grouped, offers.items[cursor]) IN
         /\ pc' = IF r.raised THEN "raised" ELSE "fold"
         /\ grouped' = r.grouped
    /\ cursor' = cursor + 1
    /\ UNCHANGED <<prog, offers, offers2, run, out, first>>

\* return out
EvReturn ==
    /\ prog = "_collect_best_from_event"
    /\ pc = "fold"
    /\ cursor > Len(offers.items)
    /\ pc' = "done"
    /\ out' = grouped
    /\ UNCHANGED <<prog, offers, offers2, run, cursor, grouped, first>>

\* the caller keeps the result and calls the function again on offers2; the
\* locals of the finished call are dead and are re-bound by the next one
CallAgain ==
    /\ prog \in TwoCallProgs
    /\ run = 1
    /\ pc \in {"done", "raised"}
    /\ first' = [pc |-> pc, out |-> IF pc = "done" THEN out ELSE <<>>]
    /\ run' = 2
    /\ offers' = offers2
    /\ pc' = "start"
    /\ cursor' = 1
    /\ UNCHANGED <<prog, offers2, grouped, out>>

Next ==
    \/ BeginBuildProps
    \/ FoldOffer
    \/ EndFold
    \/ EmitOne
    \/ ReturnProps
    \/ BeginPair
    \/ PairNext
    \/ EndPair
    \/ ApiRowNext
    \/ NcaafRowNext
    \/ EndRows
    \/ BeginMl
    \/ MlNext
    \/ MlReturn
    \/ BeginEv
    \/ EvNext
    \/ EvReturn
    \/ CallAgain

Spec == Init /\ [][Next]_vars

-----------------------------------------------------------------------------
(* The quotes of an input, as the folds read them.                         *)

\* the offers loop or the bookmakers loop is exhausted: the fold has read
\* its whole input and has not raised
FoldEnded == pc = "fold" /\ cursor > Len(offers.items)

\* an offer whose string fields are strings
WellFormed(o) == NULL \notin {o.player, o.stat, o.side, o.book, o.matchup}

\* an offer that names a key and a side
Recognized(o) ==
    /\ WellFormed(o)
    /\ Strip(o.player) # "" /\ Strip(o.stat) # "" /\ o.line.t # "none"
    /\ Lower(o.side) \in {"over", "under"}

QuoteRec(n, key, side, odds, book) ==
    [n |-> n, key |-> key, side |-> side, odds |-> odds, book |-> book]

\* the quotes of a list of flat offers, n the arrival position
OfferQuotes(items) ==
    {The({QuoteRec(k, KeyOf(f), f.side, f.odds, f.book) : f \in {OfferFields(items[k])}})
        : k \in {j \in 1..Len(items) : Recognized(items[j])}}

\* the outcomes of stat_key in a list of bookmakers, in feed order, each
\* with the name of its book
RECURSIVE FeedOf(_)
FeedOf(bookmakers) ==
    IF bookmakers = <<>> THEN <<>>
    ELSE The({[n \in 1..Len(outs) |-> [book |-> BookName(Head(bookmakers)), o |-> outs[n]]]
              : outs \in {IF Head(bookmakers).markets.none THEN <<>>
                          ELSE OutcomesOf(Head(bookmakers).markets.items, StatKey)}})
         \o FeedOf(Tail(bookmakers))

\* the quotes of a list of bookmakers for pairing.py and odds_api.py
FeedQuotes(items) ==
    The({{The({QuoteRec(k, PairKey(r.player, StatKey, _normalize_point(feed[k].o.point)),
                        r.side, feed[k].o.price, feed[k].book)
               : r \in {_resolve_side_and_player(feed[k].o.name, feed[k].o.description)}})
          : k \in {j \in 1..Len(feed) :
                     LET r == _resolve_side_and_player(feed[j].o.name, feed[j].o.description)
                     IN  r.side \in {"over", "under"} /\ r.player \notin {NULL, ""}}}
         : feed \in {FeedOf(items)}})

Quotes ==
    IF prog = "build_props_novig" THEN OfferQuotes(offers.items)
    ELSE FeedQuotes(offers.items)

\* a price that is a nonzero integer
ValidPrice(q) == q.odds.t = "int" /\ q.odds.v # 0

SameSide(q, r) == q.key = r.key /\ q.side = r.side

\* the quote the fold holds for the key and side of q
Retained(q) == SideOf(EntryOf(grouped, q.key), q.side)

-----------------------------------------------------------------------------
(* Properties.                                                             *)

\* C1: every market emitted with both sides retained at valid nonzero prices
\* has fair probabilities that sum to 1 (10000 in units of 10^-4, the
\* granularity of the emitted values, so that a deviation of one unit
\* exceeds 1e-6), in build_props_novig and in the rows of odds_api.
C1_FairSumsToOne ==
    /\ (prog = "build_props_novig" /\ pc = "done") =>
          \A g \in 1..Len(out) : \A n \in 1..Len(out[g].props) :
              LET prop == out[g].props[n] IN
              (prop.shop.over.set /\ prop.shop.under.set) =>
                  prop.fair.over + prop.fair.under = 10000
    /\ (prog = "odds_api.fetch_player_props" /\ pc = "done") =>
          \A n \in 1..Len(out) :
              (/\ out[n].shop.over.set /\ out[n].shop.under.set
               /\ out[n].shop.over.price # 0 /\ out[n].shop.under.price # 0) =>
                  out[n].fair.over + out[n].fair.under = 10000

\* C2: at the end of the fold of pairing._pair_outcomes, build_props_novig
\* and odds_api._pair_outcomes, a key and side for which fanduel and another
\* book quoted valid prices holds a quote of fanduel, at a price that fanduel
\* quoted for that key and side, whatever the arrival order.
C2_PriorityBookRetained ==
    (/\ prog \in {"build_props_novig", "pairing._pair_outcomes",
                  "odds_api.fetch_player_props"}
     /\ FoldEnded) =>
        \A q \in Quotes :
            (/\ ValidPrice(q) /\ q.book = "fanduel"
             /\ \E r \in Quotes : SameSide(q, r) /\ ValidPrice(r) /\ r.book # "fanduel") =>
                /\ Retained(q).set
                /\ Retained(q).book = "fanduel"
                /\ \E f \in Quotes :
                      /\ SameSide(q, f) /\ f.book = "fanduel"
                      /\ f.odds.t = "int" /\ f.odds.v = Retained(q).price

\* the fanduel quote arrived after the quote of another book for its key and
\* side, and the fold ended holding it
C2_Witness ==
    /\ prog \in {"build_props_novig", "pairing._pair_outcomes"}
    /\ FoldEnded
    /\ \E q \in Quotes : \E r \in Quotes :
          /\ SameSide(q, r) /\ ValidPrice(q) /\ ValidPrice(r)
          /\ q.book = "fanduel" /\ r.book # "fanduel" /\ r.n < q.n
          /\ Retained(q) = Quote(q.odds.v, "fanduel")

\* C3: at the end of the fold of pairing._pair_outcomes and
\* build_props_novig, a key and side quoted at valid prices only by books
\* other than fanduel holds the first of these quotes; no later one has
\* replaced it.
C3_FirstSeenRetained ==
    (prog \in {"build_props_novig", "pairing._pair_outcomes"} /\ FoldEnded) =>
        \A q \in Quotes :
            (/\ ValidPrice(q)
             /\ \A r \in Quotes :
                  (SameSide(q, r) /\ ValidPrice(r)) => (r.book # "fanduel" /\ q.n <= r.n)) =>
                Retained(q) = Quote(q.odds.v, q.book)

\* p pays more than q per unit staked
PaysMore(p, q) == DecimalGreater(p, q)

\* the integer prices that the bookmakers of the input quote on a fighter
MlPrices(fighter) ==
    UNION {The({{outs[j].price.v
                 : j \in {n \in 1..Len(outs) :
                            /\ OrElse(outs[n].name, outs[n].description) = fighter
                            /\ outs[n].price.t = "int"}}
                : outs \in {IF offers.items[k].markets.none THEN <<>>
                            ELSE OutcomesOf(offers.items[k].markets.items, UFC_ML_MARKET)}})
           : k \in 1..Len(offers.items)}

\* C4: the shop price reported for a side is the one with the most
\* favourable payout among all the valid quotes of the input for that side:
\* for the props of build_props_novig and for the moneyline rows of
\* props_ufc._collect_ml.
C4_ShopIsBestPayout ==
    /\ (prog = "build_props_novig" /\ pc = "done") =>
          \A g \in 1..Len(out) : \A n \in 1..Len(out[g].props) :
              \A q \in Quotes :
                  LET prop == out[g].props[n]
                      shop == SideOf(prop.shop, q.side)
                  IN  (/\ ValidPrice(q)
                       /\ q.key = [player |-> prop.player, stat |-> prop.stat,
                                   line |-> prop.line]) =>
                          shop.set /\ ~PaysMore(q.odds.v, shop.price)
    /\ (prog = "_collect_ml" /\ pc = "done") =>
          \A n \in 1..Len(out) : \A p \in MlPrices(out[n].fighter) :
              p # 0 => ~PaysMore(p, out[n].shop.american)

\* C5: the book reported with a best price does not depend on the order of
\* the bookmakers: the second call, on the reversed list, reports the books
\* the first call reported (props_ufc._collect_ml and
\* routes_ev_plays._collect_best_from_event).
C5_BookIndependentOfOrder ==
    /\ (prog = "_collect_ml" /\ run = 2 /\ pc = "done" /\ first.pc = "done") =>
          /\ Len(out) = Len(first.out)
          /\ \A n \in 1..Len(out) : out[n].shop.book = first.out[n].shop.book
    /\ (prog = "_collect_best_from_event" /\ run = 2 /\ pc = "done"
            /\ first.pc = "done") =>
          /\ out.home.book = first.out.home.book
          /\ out.away.book = first.out.away.book

\* C6: a second call of build_props_novig on the same offers ends as the
\* first did, and when it returns, it returns the same groups with the same
\* props in the same order.
C6_SecondCallEqualsFirst ==
    (prog = "build_props_novig" /\ run = 2 /\ pc \in {"done", "raised"}) =>
        /\ pc = first.pc
        /\ pc = "done" => out = first.out

\* the second call returned a two-sided prop
C6_Witness ==
    /\ prog = "build_props_novig" /\ run = 2 /\ pc = "done"
    /\ first.pc = "done"
    /\ \E g \in 1..Len(out) : \E n \in 1..Len(out[g].props) :
          out[g].props[n].shop.over.set /\ out[g].props[n].shop.under.set

\* C7: a market with one side retained reports, for the quoted side, the
\* implied probability of its price and, for the other side, the complement
\* to 1: rounded to 4 decimals in build_props_novig and in the rows of
\* odds_api, as computed in the rows of props_ncaaf.
C7_SingleSidedComplement ==
    /\ (prog = "build_props_novig" /\ pc = "done") =>
          \A g \in 1..Len(out) : \A n \in 1..Len(out[g].props) :
              LET prop == out[g].props[n] IN
              (prop.shop.over.set # prop.shop.under.set) =>
                  LET quoted == IF prop.shop.over.set THEN prop.fair.over
                                ELSE prop.fair.under
                      other  == IF prop.shop.over.set THEN prop.fair.under
                                ELSE prop.fair.over
                  IN  /\ quoted = Round4(american_to_implied(prop.odds))
                      /\ other = Round4(FSub(FOne, american_to_implied(prop.odds)))
    /\ (prog = "odds_api.fetch_player_props" /\ pc = "done") =>
          \A n \in 1..Len(out) :
              (out[n].shop.over.set # out[n].shop.under.set) =>
                  LET quoted == IF out[n].shop.over.set THEN out[n].fair.over
                                ELSE out[n].fair.under
                      other  == IF out[n].shop.over.set THEN out[n].fair.under
                                ELSE out[n].fair.over
                  IN  /\ quoted = Round4(american_to_implied(out[n].odds))
                      /\ other = Round4(FSub(FOne, american_to_implied(out[n].odds)))
    /\ (prog = "props_ncaaf.fetch_ncaaf_player_props" /\ pc = "done") =>
          \A n \in 1..Len(out) :
              (out[n].shop.over.set # out[n].shop.under.set) =>
                  LET one    == IF out[n].shop.over.set THEN out[n].shop.over
                                ELSE out[n].shop.under
                      quoted == IF out[n].shop.over.set THEN out[n].fair.over
                                ELSE out[n].fair.under
                      other  == IF out[n].shop.over.set THEN out[n].fair.under
                                ELSE out[n].fair.over
                  IN  /\ quoted.set /\ other.set
                      /\ quoted.p = american_to_implied(one.price)
                      /\ other.p = FSub(FOne, american_to_implied(one.price))

\* an offer that the fold retains or passes over: its price is valid and
\* its side recognized
CleanOffer(o) == Recognized(o) /\ o.odds.t = "int" /\ o.odds.v # 0

\* an offer that names its player, stat and line, so that it is clean or is
\* rejected for its price or its side
Isolable(o) ==
    /\ WellFormed(o)
    /\ Strip(o.player) # "" /\ Strip(o.stat) # "" /\ o.line.t # "none"

\* the offers loop of build_props_novig on items, from grouped = acc
RECURSIVE FoldAll(_, _)
FoldAll(acc, items) ==
    IF items = <<>> THEN acc
    ELSE The({FoldAll(r.grouped, Tail(items)) : r \in {BuildPropsFold(acc, Head(items))}})

\* the props loop of build_props_novig on entries, from grouped_props = acc
RECURSIVE EmitAll(_, _)
EmitAll(acc, entries) ==
    IF entries = <<>> THEN acc
    ELSE The({EmitAll(r, Tail(entries)) : r \in {EmitProp(acc, Head(entries))}})

\* what build_props_novig returns on items, none of which makes it raise
PropsOf(items) == The({EmitAll(<<>>, g) : g \in {FoldAll(<<>>, items)}})

\* an outcome that pairing._pair_outcomes retains or passes over
CleanOutcome(o) ==
    The({r.side \in {"over", "under"} /\ r.player \notin {NULL, ""}
         : r \in {_resolve_side_and_player(o.name, o.description)}})
    /\ o.price.t = "int" /\ o.price.v # 0

\* a bookmaker without the outcomes that are not clean
CleanBookmaker(b) ==
    IF b.markets.none THEN b
    ELSE [b EXCEPT !.markets.items =
            [m \in 1..Len(b.markets.items) |->
                [b.markets.items[m] EXCEPT
                    !.outcomes = SelectSeq(b.markets.items[m].outcomes, CleanOutcome)]]]

\* the bookmakers loop of pairing._pair_outcomes on items, from sidebook = acc
RECURSIVE PairAll(_, _)
PairAll(acc, items) ==
    IF items = <<>> THEN acc
    ELSE The({PairAll(r.grouped, Tail(items))
              : r \in {PairBookmaker("pairing", acc, Head(items), StatKey)}})

\* C8: a quote with an invalid price (zero, missing, non-numeric) or an
\* unrecognized side is dropped alone: on a batch whose quotes are all either
\* clean or of that kind, build_props_novig and pairing._pair_outcomes do not
\* raise, and they return what they return on the batch without these quotes.
C8_OffendingQuoteDroppedAlone ==
    /\ (/\ prog = "build_props_novig" /\ ~offers.none
        /\ \A k \in 1..Len(offers.items) : Isolable(offers.items[k])) =>
          /\ pc # "raised"
          /\ pc = "done" => out = PropsOf(SelectSeq(offers.items, CleanOffer))
    /\ prog = "pairing._pair_outcomes" =>
          /\ pc # "raised"
          /\ pc = "done" =>
                out = PairAll(<<>>, [k \in 1..Len(offers.items) |->
                                        CleanBookmaker(offers.items[k])])

\* C9: no aggregator (pairing._pair_outcomes, build_props_novig,
\* odds_api._pair_outcomes, props_ncaaf._pair_outcomes) ever holds a quote
\* whose price is zero.
C9_ZeroPriceNeverRetained ==
    (prog \in PairProgs \cup {"build_props_novig"} /\ pc \in {"fold", "emit", "done"}) =>
        \A n \in 1..Len(grouped) :
            /\ grouped[n].over.set => grouped[n].over.price # 0
            /\ grouped[n].under.set => grouped[n].under.price # 0

\* a record with a required field missing or null
Malformed(o) ==
    \/ NULL \in {o.player, o.stat, o.side, o.book}
    \/ "" \in {o.player, o.stat, o.side}
    \/ o.line.t = "none"
    \/ o.odds.t = "none"

\* C10: on an empty list, a missing list (None) or a list of records with
\* required fields missing or null, build_props_novig does not raise and
\* returns an empty result.
C10_EmptyOrMalformedBatch ==
    (/\ prog = "build_props_novig"
     /\ offers.none \/ \A k \in 1..Len(offers.items) : Malformed(offers.items[k])) =>
        /\ pc # "raised"
        /\ pc = "done" => out = <<>>

-----------------------------------------------------------------------------
(* props_ufc._collect_mov: the method-of-victory quote kept per bucket of  *)
(* a fighter, and the fair distribution over the quoted buckets.           *)

\* _any_matches(k, UFC_MOV_PATTERNS) on the market keys of the model
MatchesMov(k) == k \in {"method_of_victory", "to_win_by"}

\* s.lower() as its characters, for the outcome and fighter names of the
\* model ("" for None)
LowerChars(s) ==
    CASE s = "Jones by KO/TKO" -> <<"j", "o", "n", "e", "s", " ", "b", "y", " ", "k", "o", "/", "t", "k", "o">>
      [] s = "Jones by Submission" -> <<"j", "o", "n", "e", "s", " ", "b", "y", " ", "s", "u", "b", "m", "i", "s", "s", "i", "o", "n">>
      [] s = "Jones by Decision" -> <<"j", "o", "n", "e", "s", " ", "b", "y", " ", "d", "e", "c", "i", "s", "i", "o", "n">>
      [] s = "Miocic by KO/TKO" -> <<"m", "i", "o", "c", "i", "c", " ", "b", "y", " ", "k", "o", "/", "t", "k", "o">>
      [] s = "Miocic by Submission" -> <<"m", "i", "o", "c", "i", "c", " ", "b", "y", " ", "s", "u", "b", "m", "i", "s", "s", "i", "o", "n">>
      [] s = "Miocic by Decision" -> <<"m", "i", "o", "c", "i", "c", " ", "b", "y", " ", "d", "e", "c", "i", "s", "i", "o", "n">>
      [] s = "Volkov by KO/TKO" -> <<"v", "o", "l", "k", "o", "v", " ", "b", "y", " ", "k", "o", "/", "t", "k", "o">>
      [] s = "Volkov by Submission" -> <<"v", "o", "l", "k", "o", "v", " ", "b", "y", " ", "s", "u", "b", "m", "i", "s", "s", "i", "o", "n">>
      [] s = "Volkov by Decision" -> <<"v", "o", "l", "k", "o", "v", " ", "b", "y", " ", "d", "e", "c", "i", "s", "i", "o", "n">>
      [] s = "Jones" -> <<"j", "o", "n", "e", "s">>
      [] s = "Miocic" -> <<"m", "i", "o", "c", "i", "c">>
      [] s = "Volkov" -> <<"v", "o", "l", "k", "o", "v">>
      [] s = "Draw" -> <<"d", "r", "a", "w">>
      [] OTHER -> <<>>

\* a in t, for strings given by their characters
HasSub(t, a) == \E i \in 0..(Len(t) - Len(a)) : SubSeq(t, i + 1, i + Len(a)) = a

\* fighter.lower() in name.lower()
NameHasFighter(name, fighter) == HasSub(LowerChars(name), LowerChars(fighter))

\* markets_ufc.MOV_CANON, in the order of the dict
MOV_CANON ==
    << [bucket |-> "ko",
        aliases |-> <<<<"k", "o">>,
                      <<"t", "k", "o">>,
                      <<"k", "o", "/", "t", "k", "o">>,
                      <<"k", "o", " ", "o", "r", " ", "t", "k", "o">>,
                      <<"t", "e", "c", "h", "n", "i", "c", "a", "l", " ", "k", "n", "o", "c", "k", "o", "u", "t">>,
                      <<"k", "n", "o", "c", "k", "o", "u", "t">>>>],
       [bucket |-> "sub",
        aliases |-> <<<<"s", "u", "b", "m", "i", "s", "s", "i", "o", "n">>,
                      <<"b", "y", " ", "s", "u", "b", "m", "i", "s", "s", "i", "o", "n">>,
                      <<"w", "i", "n", "s", " ", "b", "y", " ", "s", "u", "b", "m", "i", "s", "s", "i", "o", "n">>>>],
       [bucket |-> "dec",
        aliases |-> <<<<"d", "e", "c", "i", "s", "i", "o", "n">>,
                      <<"p", "o", "i", "n", "t", "s">>,
                      <<"w", "i", "n", " ", "o", "n", " ", "p", "o", "i", "n", "t", "s">>,
                      <<"b", "y", " ", "d", "e", "c", "i", "s", "i", "o", "n">>>>] >>

\* the first bucket of MOV_CANON, from the n-th on, with an alias in t
RECURSIVE BucketFrom(_, _)
BucketFrom(t, n) ==
    IF n > Len(MOV_CANON) THEN ""
    ELSE IF \E k \in 1..Len(MOV_CANON[n].aliases) : HasSub(t, MOV_CANON[n].aliases[k])
    THEN MOV_CANON[n].bucket
    ELSE BucketFrom(t, n + 1)

\* _canonical_bucket: the first bucket of MOV_CANON with an alias in the
\* name, None ("") otherwise
_canonical_bucket(name) == BucketFrom(LowerChars(name), 1)

\* best = {"ko": None, "sub": None, "dec": None}
NoMov == [ko |-> NoQuote, sub |-> NoQuote, dec |-> NoQuote]

\* the body of the outcomes loop (lines 67-80): [grouped, raised] after it;
\* abs() and int() raise on a non-numeric price
MovOutcome(best, bk, fighter, o) ==
    The({IF ~NameHasFighter(name, fighter) \/ _canonical_bucket(name) = ""
               \/ o.price.t = "none"
            THEN [grouped |-> best, raised |-> FALSE]
         ELSE IF IntRaises(o.price) THEN [grouped |-> best, raised |-> TRUE]
         ELSE IF ChooseMl(best[_canonical_bucket(name)], o.price.v)
            THEN [grouped |-> [best EXCEPT ![_canonical_bucket(name)] =
                                               Quote(o.price.v, bk)],
                  raised |-> FALSE]
         ELSE [grouped |-> best, raised |-> FALSE]
         : name \in {OrElse(o.name, OrElse(o.description, ""))}})

RECURSIVE MovOutcomes(_, _, _, _)
MovOutcomes(acc, bk, fighter, outs) ==
    IF outs = <<>> \/ acc.raised THEN acc
    ELSE The({MovOutcomes(r, bk, fighter, Tail(outs))
              : r \in {MovOutcome(acc.grouped, bk, fighter, Head(outs))}})

\* the outcomes of the markets whose key matches a MOV pattern (lines 63-67)
RECURSIVE MovOutcomesOf(_)
MovOutcomesOf(markets) ==
    IF markets = <<>> THEN <<>>
    ELSE (IF MatchesMov(Lower(OrElse(Head(markets).key, "")))
          THEN Head(markets).outcomes ELSE <<>>) \o MovOutcomesOf(Tail(markets))

\* the bookmakers loop of _collect_mov (lines 61-80), from best = acc.grouped;
\* bkr.get("markets", []) raises TypeError on None
RECURSIVE MovBest(_, _, _)
MovBest(acc, bookmakers, fighter) ==
    IF bookmakers = <<>> \/ acc.raised THEN acc
    ELSE The({MovBest(r, Tail(bookmakers), fighter)
              : r \in {IF Head(bookmakers).markets.none
                       THEN [grouped |-> acc.grouped, raised |-> TRUE]
                       ELSE MovOutcomes(acc, Head(bookmakers).key, fighter,
                                        MovOutcomesOf(Head(bookmakers).markets.items))}})

\* buckets = [b for b in ("ko","sub","dec") if best[b]]
MovBuckets(best) == SelectSeq(<<"ko", "sub", "dec">>, LAMBDA b : best[b].set)

\* odds = [best[b]["price"] for b in ("ko","sub","dec") if best[b]], mis-ordered
MovOddsReversed(best) ==
    [n \in 1..Len(MovBuckets(best)) |->
        best[MovBuckets(best)[Len(MovBuckets(best)) + 1 - n]].price]
MovOdds(best) ==
    [n \in 1..Len(MovBuckets(best)) |-> best[MovBuckets(best)[n]].price]

\* len(have) < 2, with a threshold of one
TooFewOne(have) == have < 1
TooFew(have) == have < 2

\* novig_multi.novig_multiway: each implied probability over the sum of the
\* implied probabilities, summed left to right
MultiwayOf(od) ==
    IF Len(od) = 2
    THEN The({The({<<FDiv(ia, z), FDiv(ib, z)>> : z \in {FAdd(ia, ib)}})
              : ia \in {american_to_implied(od[1])}, ib \in {american_to_implied(od[2])}})
    ELSE The({The({<<FDiv(ia, z), FDiv(ib, z), FDiv(ic, z)>>
                   : z \in {The({FAdd(y, ic) : y \in {FAdd(ia, ib)}})}})
              : ia \in {american_to_implied(od[1])}, ib \in {american_to_implied(od[2])},
                ic \in {american_to_implied(od[3])}})

\* the method-of-victory prices of the model
MovPrices == {104, 105, 125, 130}

\* MultiwayOf is computed once for the lists of two and three prices; the
\* one probability of a list of one price is p / p
MultiwayTab ==
    {<<<<a>>, <<FOne>>>> : a \in MovPrices}
    \cup {<<<<a, b>>, MultiwayOf(<<a, b>>)>> : a \in MovPrices, b \in MovPrices}
    \cup {<<<<a, b, c>>, MultiwayOf(<<a, b, c>>)>>
            : a \in MovPrices, b \in MovPrices, c \in MovPrices}

novig_multiway(odds) == (CHOOSE t \in MultiwayTab : t[1] = odds)[2]

\* {} of _collect_mov
NoMovMarket == [none |-> TRUE, rows |-> <<>>]

\* lines 81-93 of _collect_mov: {} or, per quoted bucket in the order ko,
\* sub, dec, its shop quote and the fair probability that zip(buckets, probs)
\* gives it (fair.american, a rendering of fair.prob, is left out)
MovMarket(best) ==
    IF TooFew(Len(MovBuckets(best))) THEN NoMovMarket
    ELSE The({[none |-> FALSE,
               rows |-> [n \in 1..Len(bs) |->
                            [bucket |-> bs[n], american |-> best[bs[n]].price,
                             book |-> best[bs[n]].book, prob |-> probs[n]]]]
              : bs \in {MovBuckets(best)}, probs \in {novig_multiway(MovOdds(best))}})

\* _collect_mov(bookmakers, fighter): [market, raised]
_collect_mov(bookmakers, fighter) ==
    The({IF r.raised THEN [market |-> NoMovMarket, raised |-> TRUE]
         ELSE [market |-> MovMarket(r.grouped), raised |-> FALSE]
         : r \in {MovBest([grouped |-> NoMov, raised |-> FALSE], bookmakers, fighter)}})

-----------------------------------------------------------------------------
(* The league fetchers: odds_api.fetch_player_props,                       *)
(* props_ufc.fetch_ufc_markets and nfl_odds_api.fetch_nfl_props.  An event *)
(* of the events list carries what its requests will meet: fetch is the    *)
(* outcome of the event-odds request, probe that of the second request of  *)
(* the event (the second market batch of fetch_player_props, the markets   *)
(* discovery of fetch_ufc_markets), bookmakers what the books offer.       *)

\* the longest events list
MaxEvents == 3

Event(id, fetch, probe, bookmakers) ==
    [id |-> id, fetch |-> fetch, probe |-> probe, bookmakers |-> bookmakers]

\* _pair_outcomes over bookmakers: [grouped, raised]
RECURSIVE PairFold(_, _, _)
PairFold(fn, acc, items) ==
    IF items = <<>> \/ acc.raised THEN acc
    ELSE The({PairFold(fn, r, Tail(items))
              : r \in {PairBookmaker(fn, acc.grouped, Head(items), StatKey)}})

\* the rows that fetch_player_props adds for one event (lines 540-600): a
\* failed request or a raise while pairing is caught per batch (563-565);
\* the second batch asks for markets that no book of the model offers
ApiEventRows(ev) ==
    IF ev.fetch # "ok" THEN <<>>
    ELSE The({IF r.raised THEN <<>>
              ELSE [n \in 1..Len(r.grouped) |-> ApiRow(r.grouped[n])]
              : r \in {PairFold("odds_api", [grouped |-> <<>>, raised |-> FALSE],
                                ev.bookmakers)}})

\* the bookmakers loop of _collect_ml: [grouped, raised]
RECURSIVE MlFold(_, _)
MlFold(acc, bookmakers) ==
    IF bookmakers = <<>> \/ acc.raised THEN acc
    ELSE The({MlFold(r, Tail(bookmakers))
              : r \in {MlBookmaker(acc.grouped, Head(bookmakers), Fighters)}})

\* lines 107-118 of fetch_ufc_markets: MOV markets are asked for when the
\* discovery request answered and showed a key that matches a MOV pattern
WantMov(ev) ==
    /\ ev.probe = "ok"
    /\ \E n \in 1..Len(ev.bookmakers) : \E k \in 1..Len(ev.bookmakers[n].markets.items) :
          MatchesMov(ev.bookmakers[n].markets.items[k].key)

\* event_odds_ufc(eid, want): the books' markets among the keys wanted
EventOddsUfc(ev) ==
    [n \in 1..Len(ev.bookmakers) |->
        [ev.bookmakers[n] EXCEPT !.markets.items =
            SelectSeq(ev.bookmakers[n].markets.items,
                      LAMBDA m : m.key = UFC_ML_MARKET \/ (WantMov(ev) /\ MatchesMov(m.key)))]]

\* lines 120-141 of fetch_ufc_markets: [fight, raised] for one event; the
\* request of line 120 is outside any try (bios are left out)
UfcFight(ev) ==
    IF ev.fetch # "ok" THEN [fight |-> <<>>, raised |-> TRUE]
    ELSE The({The({IF ml.raised \/ ma.raised \/ mb.raised
                      THEN [fight |-> <<>>, raised |-> TRUE]
                   ELSE [fight |->
                           [event_id |-> ev.id,
                            fighters |->
                              <<[name |-> Fighters[1], mov |-> ma.market,
                                 ml |-> SelectSeq(MlRows(ml.grouped, Fighters),
                                                  LAMBDA r : r.fighter = Fighters[1])],
                                [name |-> Fighters[2], mov |-> mb.market,
                                 ml |-> SelectSeq(MlRows(ml.grouped, Fighters),
                                                  LAMBDA r : r.fighter = Fighters[2])]>>],
                         raised |-> FALSE]
                   : ml \in {MlFold([grouped |-> NoBest, raised |-> FALSE], bms)},
                     ma \in {_collect_mov(bms, Fighters[1])},
                     mb \in {_collect_mov(bms, Fighters[2])}})
              : bms \in {EventOddsUfc(ev)}})

\* fav_prob: the largest moneyline fair probability of a fight, or 0.0
fav_prob(f) ==
    IF f.fighters[1].ml = <<>> THEN FZero
    ELSE IF FLess(f.fighters[1].ml[1].fair, f.fighters[2].ml[1].fair)
         THEN f.fighters[2].ml[1].fair
    ELSE f.fighters[1].ml[1].fair

\* fights.sort(key=fav_prob, reverse=True), a stable sort
RECURSIVE InsertFight(_, _)
InsertFight(sorted, f) ==
    IF sorted = <<>> THEN <<f>>
    ELSE IF FLess(fav_prob(Head(sorted)), fav_prob(f)) THEN <<f>> \o sorted
    ELSE <<Head(sorted)>> \o InsertFight(Tail(sorted), f)

RECURSIVE SortFights(_, _)
SortFights(sorted, fights) ==
    IF fights = <<>> THEN sorted
    ELSE The({SortFights(t, Tail(fights)) : t \in {InsertFight(sorted, Head(fights))}})

\* lines 159-174 of fetch_nfl_props: [shells, raised] for one event.  _get
\* turns an error status into RuntimeError, which line 161 catches; a
\* timeout or connection error of requests.get is no RuntimeError
NflEventShells(ev) ==
    IF ev.fetch = "timeout" THEN [shells |-> <<>>, raised |-> TRUE]
    ELSE IF ev.fetch # "ok" \/ ev.bookmakers = <<>> THEN [shells |-> <<>>, raised |-> FALSE]
    ELSE [shells |-> <<[id |-> ev.id, bookmakers |-> ev.bookmakers]>>, raised |-> FALSE]

\* a method-of-victory market: outcomes named by fighter and method
Method(quotes) ==
    Market("method_of_victory",
           [n \in 1..Len(quotes) |-> Outcome(quotes[n][1], NULL, NoneLine, IntOdds(quotes[n][2]))])

\* what the books offer on the fights of the model
FightBooks ==
    << <<Bookmaker("fanduel", "FanDuel",
            Moneyline(IntOdds(-150), IntOdds(130))
            \o <<Method(<<<<"Jones by KO/TKO", 130>>, <<"Jones by Submission", 125>>,
                          <<"Jones by Decision", 105>>, <<"Miocic by KO/TKO", 104>>>>)>>),
         Bookmaker("draftkings", "DraftKings",
            Moneyline(IntOdds(-145), IntOdds(125))
            \o <<Method(<<<<"Jones by KO/TKO", 125>>, <<"Draw", 130>>>>)>>)>>,
       <<Bookmaker("draftkings", "DraftKings",
            Moneyline(IntOdds(-125), IntOdds(105))
            \o <<Method(<<<<"Jones by Submission", 104>>, <<"Jones by Decision", 125>>,
                          <<"Miocic by Decision", 130>>, <<"Miocic by KO/TKO", 105>>>>)>>)>>,
       <<Bookmaker("betmgm", "BetMGM", Moneyline(IntOdds(-110), IntOdds(-110)))>> >>

FightEvents ==
    { Event("f1", "ok", "ok", FightBooks[1]),
      Event("f2", "ok", "ok", FightBooks[2]),
      Event("f3", "ok", "timeout", FightBooks[2]),
      Event("f4", "ok", "ok", FightBooks[3]),
      Event("f5", "http_error", "ok", FightBooks[1]),
      Event("f6", "timeout", "ok", FightBooks[3]),
      Event("", "ok", "ok", FightBooks[3]) }

\* what the books offer on the games of the model
GameBooks ==
    << <<Bookmaker("fanduel", "FanDuel",
            Hits(<<Outcome("Over", "Judge", NumLine(5, 1), IntOdds(-125)),
                   Outcome("Under", "Judge", NumLine(5, 1), IntOdds(104))>>))>>,
       <<Bookmaker("draftkings", "DraftKings",
            Hits(<<Outcome("Over", "Soto", NumLine(15, 1), IntOdds(-110))>>)),
         Bookmaker("betmgm", "BetMGM",
            Hits(<<Outcome("Under", "Soto", NumLine(15, 1), IntOdds(-120))>>))>>,
       <<>> >>

GameEvents ==
    { Event("g1", "ok", "ok", GameBooks[1]),
      Event("g2", "ok", "timeout", GameBooks[2]),
      Event("g3", "ok", "ok", GameBooks[3]),
      Event("g4", "http_error", "ok", GameBooks[1]),
      Event("g5", "timeout", "ok", GameBooks[2]),
      Event("", "ok", "ok", GameBooks[1]) }

Fetchers == {"fetch_player_props", "fetch_ufc_markets", "fetch_nfl_props"}

\* the events request has answered with a list of at most MaxEvents events,
\* or has failed (offers.none)
FetchInit ==
    /\ prog \in Fetchers
    /\ offers \in {NoneList} \cup
          {List(sq) : sq \in SeqsUpTo(IF prog = "fetch_ufc_markets" THEN FightEvents
                                      ELSE GameEvents, MaxEvents)}
    /\ offers2 = offers
    /\ run = 1
    /\ pc = "start"
    /\ cursor = 1
    /\ grouped = <<>>
    /\ out = <<>>
    /\ first = NoResult

\* the events request: fetch_player_props returns [] when it fails (lines
\* 500-514); list_events_ufc (line 96) and _list_events (line 152) are
\* called outside any try.  odds_api.py binds BASE and API_KEY but not the
\* names ODDS_API_KEY and BASE_URL that lines 496 and 502 read: the event
\* loop of fetch_player_props is modelled for a module that binds them.
FetchBegin ==
    /\ prog \in Fetchers
    /\ pc = "start"
    /\ pc' = IF ~offers.none THEN "fold"
             ELSE IF prog = "fetch_player_props" THEN "done" ELSE "raised"
    /\ out' = <<>>
    /\ cursor' = 1
    /\ UNCHANGED <<prog, offers, offers2, run, grouped, first>>

\* one event of fetch_player_props (lines 529-600)
ApiEvent ==
    /\ prog = "fetch_player_props"
    /\ pc = "fold"
    /\ cursor <= Len(offers.items)
    /\ out' = IF offers.items[cursor].id = "" THEN out
              ELSE out \o ApiEventRows(offers.items[cursor])
    /\ cursor' = cursor + 1
    /\ UNCHANGED <<prog, offers, offers2, run, pc, grouped, first>>

\* one event of fetch_ufc_markets (lines 98-141)
UfcEvent ==
    /\ prog = "fetch_ufc_markets"
    /\ pc = "fold"
    /\ cursor <= Len(offers.items)
    /\ IF offers.items[cursor].id = "" THEN UNCHANGED <<pc, out>>
       ELSE LET r == UfcFight(offers.items[cursor]) IN
            /\ pc' = IF r.raised THEN "raised" ELSE "fold"
            /\ out' = IF r.raised THEN out ELSE Append(out, r.fight)
    /\ cursor' = cursor + 1
    /\ UNCHANGED <<prog, offers, offers2, run, grouped, first>>

\* one event of fetch_nfl_props (lines 155-174)
NflEvent ==
    /\ prog = "fetch_nfl_props"
    /\ pc = "fold"
    /\ cursor <= Len(offers.items)
    /\ IF offers.items[cursor].id = "" THEN UNCHANGED <<pc, out>>
       ELSE LET r == NflEventShells(offers.items[cursor]) IN
            /\ pc' = IF r.raised THEN "raised" ELSE "fold"
            /\ out' = out \o r.shells
    /\ cursor' = cursor + 1
    /\ UNCHANGED <<prog, offers, offers2, run, grouped, first>>

\* the events are exhausted: the fetcher returns; fetch_ufc_markets sorts
\* its fights (lines 142-151)
FetchReturn ==
    /\ prog \in Fetchers
    /\ pc = "fold"
    /\ cursor > Len(offers.items)
    /\ pc' = "done"
    /\ out' = IF prog = "fetch_ufc_markets" THEN SortFights(<<>>, out) ELSE out
    /\ UNCHANGED <<prog, offers, offers2, run, cursor, grouped, first>>

FetchNext ==
    \/ FetchBegin
    \/ ApiEvent
    \/ UfcEvent
    \/ NflEvent
    \/ FetchReturn

FetchSpec == FetchInit /\ [][FetchNext]_vars

(***************************************************************************)
(* Properties of the league fetchers                                       *)
(***************************************************************************)

Elements(sq) == {sq[n] : n \in 1..Len(sq)}

\* what the fetcher returns for the event when it is the only event
AloneResult(fetcher, ev) ==
    IF ev.id = "" \/ ev.fetch # "ok" THEN {}
    ELSE IF fetcher = "fetch_player_props" THEN Elements(ApiEventRows(ev))
    ELSE IF fetcher = "fetch_ufc_markets" THEN {UfcFight(ev).fight}
    ELSE Elements(NflEventShells(ev).shells)

\* C11: a failed per-event fetch never aborts the batch: once the events
\* are listed the fetcher does not raise, and what it returns holds the
\* markets of every event whose own fetch succeeded, before or after the
\* failed one.
C11_FailedFetchIsolated ==
    ~offers.none =>
        /\ pc # "raised"
        /\ pc = "done" =>
              \A n \in 1..Len(offers.items) :
                  AloneResult(prog, offers.items[n]) \subseteq Elements(out)

-----------------------------------------------------------------------------
(* Two aggregation passes in flight at once: two calls of                  *)
(* build_props_novig, or the pairing of two events by fetch_player_props,  *)
(* interleaved by the scheduler at the granularity of one loop iteration.  *)
(* prog is the function both passes run, offers and offers2 their inputs;  *)
(* pc, cursor, grouped, out and first hold one component per pass.         *)

MaxPassItems == 2

Passes == {1, 2}

PassProgs == {"build_props_novig", "odds_api.fetch_player_props"}

PassOffers ==
    { Offer("Over", IntOdds(-125), "fanduel"),
      Offer("under", IntOdds(104), "fanduel"),
      Offer("over", IntOdds(-110), "draftkings") }

PassBookmakers ==
    { Bookmaker("fanduel", "FanDuel",
        Hits(<<Outcome("Over", "Judge", NumLine(5, 1), IntOdds(-125)),
               Outcome("Under", "Judge", NumLine(5, 1), IntOdds(104))>>)),
      Bookmaker("betmgm", "BetMGM",
        Hits(<<Outcome("Over", "Judge", NumLine(5, 1), IntOdds(105)),
               Outcome("Under", "Judge", NumLine(5, 1), IntOdds(-125))>>)) }

\* the accumulators of a pass are locals of its call: grouped (pairing.py
\* line 105) and grouped_props (line 136), sidebook and the rows of the
\* event (odds_api.py lines 540 and 568); a module-level accumulator would
\* be one frame for both passes
SharedFrame(t) == 1
FrameOf(t) == t

\* one iteration of the pass's first loop on the accumulator acc
PassFoldStep(fn, acc, item) ==
    IF fn = "build_props_novig" THEN BuildPropsFold(acc, item)
    ELSE PairBookmaker("odds_api", acc, item, StatKey)

\* one iteration of the pass's second loop on the rows so far
PassEmitStep(fn, rows, entry) ==
    IF fn = "build_props_novig" THEN EmitProp(rows, entry)
    ELSE Append(rows, ApiRow(entry))

PassItems(t) == IF t = 1 THEN offers.items ELSE offers2.items

PassInit ==
    /\ prog \in PassProgs
    /\ offers \in {List(sq) : sq \in SeqsUpTo(IF prog = "build_props_novig" THEN PassOffers
                                              ELSE PassBookmakers, MaxPassItems)}
    /\ offers2 \in {List(sq) : sq \in SeqsUpTo(IF prog = "build_props_novig" THEN PassOffers
                                               ELSE PassBookmakers, MaxPassItems)}
    /\ run = 1
    /\ pc = <<"start", "start">>
    /\ cursor = <<1, 1>>
    /\ grouped = <<<<>>, <<>>>>
    /\ out = <<<<>>, <<>>>>
    /\ first = <<NoResult, NoResult>>

\* a pass enters its function: grouped = defaultdict(...) / sidebook = {}
PassBegin ==
    \E t \in Passes :
        /\ pc[t] = "start"
        /\ pc' = [pc EXCEPT ![t] = "fold"]
        /\ cursor' = [cursor EXCEPT ![t] = 1]
        /\ grouped' = [grouped EXCEPT ![FrameOf(t)] = <<>>]
        /\ UNCHANGED <<prog, offers, offers2, run, out, first>>

\* a pass runs one iteration of its first loop
PassFold ==
    \E t \in Passes :
        /\ pc[t] = "fold"
        /\ cursor[t] <= Len(PassItems(t))
        /\ LET r == PassFoldStep(prog, grouped[FrameOf(t)], PassItems(t)[cursor[t]]) IN
             /\ pc' = [pc EXCEPT ![t] = IF r.raised THEN "raised" ELSE "fold"]
             /\ grouped' = [grouped EXCEPT ![FrameOf(t)] = r.grouped]
        /\ cursor' = [cursor EXCEPT ![t] = @ + 1]
        /\ UNCHANGED <<prog, offers, offers2, run, out, first>>

\* the first loop of a pass is exhausted: grouped_props = {} / the rows
PassEndFold ==
    \E t \in Passes :
        /\ pc[t] = "fold"
        /\ cursor[t] > Len(PassItems(t))
        /\ pc' = [pc EXCEPT ![t] = "emit"]
        /\ cursor' = [cursor EXCEPT ![t] = 1]
        /\ out' = [out EXCEPT ![FrameOf(t)] = <<>>]
        /\ UNCHANGED <<prog, offers, offers2, run, grouped, first>>

\* a pass runs one iteration of its second loop
PassEmit ==
    \E t \in Passes :
        /\ pc[t] = "emit"
        /\ cursor[t] <= Len(grouped[FrameOf(t)])
        /\ out' = [out EXCEPT ![FrameOf(t)] =
                      PassEmitStep(prog, @, grouped[FrameOf(t)][cursor[t]])]
        /\ cursor' = [cursor EXCEPT ![t] = @ + 1]
        /\ UNCHANGED <<prog, offers, offers2, run, pc, grouped, first>>

\* a pass returns what it has built
PassReturn ==
    \E t \in Passes :
        /\ pc[t] = "emit"
        /\ cursor[t] > Len(grouped[FrameOf(t)])
        /\ pc' = [pc EXCEPT ![t] = "done"]
        /\ first' = [first EXCEPT ![t] = out[FrameOf(t)]]
        /\ UNCHANGED <<prog, offers, offers2, run, cursor, grouped, out>>

PassNext ==
    \/ PassBegin
    \/ PassFold
    \/ PassEndFold
    \/ PassEmit
    \/ PassReturn

PassSpec == PassInit /\ [][PassNext]_vars

\* the accumulator of the pass on items when nothing else runs
RECURSIVE AloneFold(_, _, _)
AloneFold(fn, acc, items) ==
    IF items = <<>> THEN acc
    ELSE The({AloneFold(fn, r.grouped, Tail(items)) : r \in {PassFoldStep(fn, acc, Head(items))}})

\* the result of the pass from the entries of its accumulator when nothing
\* else runs
RECURSIVE AloneEmit(_, _, _)
AloneEmit(fn, rows, entries) ==
    IF entries = <<>> THEN rows
    ELSE The({AloneEmit(fn, r, Tail(entries)) : r \in {PassEmitStep(fn, rows, Head(entries))}})

AloneResultOf(fn, items) ==
    The({AloneEmit(fn, <<>>, g) : g \in {AloneFold(fn, <<>>, items)}})

\* C12: two passes in flight never touch each other's accumulators: under
\* every interleaving the accumulator of a pass is what the pass builds
\* alone from the items it has consumed, and the pass returns what it
\* returns when it runs alone.
C12_PassesIsolated ==
    \A t \in Passes :
        /\ pc[t] = "fold" =>
              grouped[t] = AloneFold(prog, <<>>, SubSeq(PassItems(t), 1, cursor[t] - 1))
        /\ pc[t] = "done" => first[t] = AloneResultOf(prog, PassItems(t))

\* both passes have returned after the other pass ran between two of their
\* iterations, each from a non-empty accumulator
C12_Witness ==
    /\ pc = <<"done", "done">>
    /\ grouped[1] # <<>> /\ grouped[2] # <<>>
    /\ grouped[1] # grouped[2]
    /\ first[1] # first[2]

-----------------------------------------------------------------------------
(* app.update_player_props: the per-market line filter (lines 1917-1945),  *)
(* the enrichment of what it keeps and the rewrite of the props cache.     *)
(* Lines are decimals of at most three places, held in thousandths: every  *)
(* threshold of the filter is a multiple of 0.5, which binary64 holds      *)
(* exactly, so float(line) <= threshold decides as the decimals do.        *)

MaxProps == 2

\* the markets the filter names, in the order of its elif chain
FilterMarkets ==
    <<"batter_hits", "batter_total_bases", "batter_home_runs", "pitcher_strikeouts",
      "pitcher_earned_runs", "pitcher_hits_allowed", "pitcher_outs">>

\* the threshold of a market, in thousandths (lines 1926-1942)
Threshold(stat_type) ==
    CASE stat_type = "batter_hits"          -> 2500
      [] stat_type = "batter_total_bases"   -> 1500
      [] stat_type = "batter_home_runs"     -> 500
      [] stat_type = "pitcher_strikeouts"   -> 7500
      [] stat_type = "pitcher_earned_runs"  -> 4500
      [] stat_type = "pitcher_hits_allowed" -> 8500
      [] stat_type = "pitcher_outs"         -> 21500

\* a cached prop; has_line is FALSE when the record has no 'line' key
RawProp(stat, has_line, line) == [stat |-> stat, has_line |-> has_line, line |-> line]

\* float(prop.get('line', 0)) in thousandths: [v, raised]; float(None)
\* raises TypeError
FloatLine(prop) ==
    IF ~prop.has_line THEN [v |-> 0, raised |-> FALSE]
    ELSE IF prop.line.t = "none" THEN [v |-> 0, raised |-> TRUE]
    ELSE [v |-> prop.line.n * 10^(3 - prop.line.s), raised |-> FALSE]

\* keep_prop for a stat and a line in thousandths (lines 1923-1942)
KeepPropBelow(stat_type, line) ==
    /\ \E n \in 1..Len(FilterMarkets) : FilterMarkets[n] = stat_type
    /\ line < Threshold(stat_type)
KeepProp(stat_type, line) ==
    /\ \E n \in 1..Len(FilterMarkets) : FilterMarkets[n] = stat_type
    /\ line <= Threshold(stat_type)

\* the props the cache file can hold: for every market of the filter a
\* line at the threshold and one a tenth above it, and props without a
\* market of the filter, without a line, with a null or a negative line
RawProps ==
    {RawProp(FilterMarkets[n], TRUE, NumLine(Threshold(FilterMarkets[n]) \div 100, 1))
        : n \in 1..Len(FilterMarkets)}
    \cup {RawProp(FilterMarkets[n], TRUE, NumLine(Threshold(FilterMarkets[n]) \div 100 + 1, 1))
        : n \in 1..Len(FilterMarkets)}
    \cup { RawProp("batter_hits", TRUE, NumLine(250, 2)),
           RawProp("batter_hits", TRUE, NumLine(95, 1)),
           RawProp("batter_hits", TRUE, NumLine(-5, 1)),
           RawProp("batter_hits", FALSE, NoneLine),
           RawProp("batter_hits", TRUE, NoneLine),
           RawProp("batter_walks", TRUE, NumLine(5, 1)),
           RawProp(NULL, TRUE, NumLine(5, 1)) }

\* enrich_prop returns the prop with its added fields and the flag
\* "enriched" (odds_api.py lines 805-828)
Enriched(prop, flag) ==
    [stat |-> prop.stat, has_line |-> prop.has_line, line |-> prop.line, enriched |-> flag]

\* raw_props is what fetch_player_props hands over; offers2 is the props
\* cache file
LineInit ==
    /\ prog = "update_player_props"
    /\ offers \in {NoneList} \cup {List(sq) : sq \in SeqsUpTo(RawProps, MaxProps)}
    /\ offers2 = offers
    /\ run = 1
    /\ pc = "start"
    /\ cursor = 1
    /\ grouped = <<>>
    /\ out = <<>>
    /\ first = NoResult

\* lines 1905-1918: no raw props, or len(None) raising into the handler of
\* line 1964, return []
LineBegin ==
    /\ prog = "update_player_props"
    /\ pc = "start"
    /\ pc' = IF offers.none \/ offers.items = <<>> THEN "done" ELSE "fold"
    /\ grouped' = <<>>
    /\ out' = <<>>
    /\ cursor' = 1
    /\ UNCHANGED <<prog, offers, offers2, run, first>>

\* one iteration of "for prop in raw_props" (lines 1919-1945); an
\* exception is caught at line 1964 and the update returns []
LineFilter ==
    /\ prog = "update_player_props"
    /\ pc = "fold"
    /\ cursor <= Len(offers.items)
    /\ LET prop == offers.items[cursor]
           line == FloatLine(prop)
       IN  /\ pc' = IF line.raised THEN "done" ELSE "fold"
           /\ grouped' = IF line.raised THEN grouped
                         ELSE IF KeepProp(prop.stat, line.v) THEN Append(grouped, prop)
                         ELSE grouped
    /\ cursor' = cursor + 1
    /\ UNCHANGED <<prog, offers, offers2, run, out, first>>

\* lines 1950-1962: the kept props are enriched, written to the props cache
\* and returned; with nothing kept the update returns []
LineReturn ==
    /\ prog = "update_player_props"
    /\ pc = "fold"
    /\ cursor > Len(offers.items)
    /\ pc' = "done"
    /\ \E flags \in [1..Len(grouped) -> BOOLEAN] :
          out' = [n \in 1..Len(grouped) |-> Enriched(grouped[n], flags[n])]
    /\ offers2' = IF grouped = <<>> THEN offers2 ELSE List(out')
    /\ UNCHANGED <<prog, offers, run, cursor, grouped, first>>

LineNext ==
    \/ LineBegin
    \/ LineFilter
    \/ LineReturn

LineSpec == LineInit /\ [][LineNext]_vars

\* the filter has run over every raw prop
FilterEnded == pc = "done" /\ ~offers.none /\ cursor > Len(offers.items)

\* no raw prop of the batch has a null line
Filterable == \A n \in 1..Len(offers.items) : ~FloatLine(offers.items[n]).raised

\* the raw prop is among the props the update returns
Returned(prop) == \E n \in 1..Len(out) : out[n].stat = prop.stat /\ out[n].line = prop.line

\* C14: when the filter has run over a batch, a prop whose line is exactly
\* the threshold of its market is returned and a prop whose line is above
\* the threshold is not, for every market that has a threshold.
C14_ThresholdInclusive ==
    FilterEnded /\ Filterable =>
        \A n \in 1..Len(offers.items) :
            LET prop == offers.items[n] IN
            \A m \in 1..Len(FilterMarkets) :
                prop.stat = FilterMarkets[m] /\ prop.has_line =>
                    /\ FloatLine(prop).v = Threshold(FilterMarkets[m]) => Returned(prop)
                    /\ FloatLine(prop).v > Threshold(FilterMarkets[m]) => ~Returned(prop)

\* a batch with batter_hits at 2.5 and at 2.6 has been filtered: one prop
\* came back
C14_Witness ==
    /\ FilterEnded
    /\ offers.items = <<RawProp("batter_hits", TRUE, NumLine(25, 1)),
                        RawProp("batter_hits", TRUE, NumLine(26, 1))>>
    /\ Len(out) = 1
    /\ out[1].line = NumLine(25, 1)

\* the market has a threshold in the line filter
HasThreshold(stat) == \E n \in 1..Len(FilterMarkets) : FilterMarkets[n] = stat

\* the line of an OfferSet key is inside the range of its market
LineInRange(key) ==
    key.line.t = "dec" /\ HasThreshold(key.stat) => key.line.v <= Threshold(key.stat)

\* C13: the aggregators retain only quotes whose line is inside the range
\* of their market: no OfferSet of build_props_novig or of a pairing
\* function has a line above the bound of its market.
C13_LineInsideRange ==
    prog \in {"build_props_novig"} \cup PairProgs /\ pc \in {"fold", "emit"} =>
        \A n \in 1..Len(grouped) : LineInRange(grouped[n].key)

-----------------------------------------------------------------------------
(* Properties of the keys.                                                 *)

\* the number of thousandths a numeral denotes
Thousandths(numeral) == numeral.n * 10^(3 - numeral.s)

\* the 3-dp string of a normalized line, read as a line again
AsLine(point) == NumLine(point.v, 3)

\* the quotes of the input that name a key and a side at a nonzero integer
\* price, each with its line as the feed wrote it
LineQuotes ==
    IF prog = "build_props_novig"
    THEN {[player |-> Strip(o.player), stat |-> Strip(o.stat), point |-> o.line]
            : o \in {offers.items[j] : j \in {k \in 1..Len(offers.items) :
                        /\ Recognized(offers.items[k])
                        /\ offers.items[k].odds.t = "int"
                        /\ offers.items[k].odds.v # 0}}}
    ELSE {[player |-> q.key.player, stat |-> q.key.stat, point |-> FeedOf(offers.items)[q.n].o.point]
            : q \in {r \in FeedQuotes(offers.items) :
                        ValidPrice(r) /\ FeedOf(offers.items)[r.n].o.point.t # "none"}}

\* the OfferSets that hold the quotes of a subject and market at the value
\* of the line
HeldAt(q) ==
    {n \in 1..Len(grouped) :
        /\ grouped[n].key.player = q.player
        /\ grouped[n].key.stat = q.stat
        /\ grouped[n].key.line.t = "dec"
        /\ Thousandths(AsLine(grouped[n].key.line)) = Thousandths(q.point)}

\* C15: at the end of the fold of build_props_novig, pairing._pair_outcomes
\* and odds_api._pair_outcomes, the quotes of a subject and market whose
\* lines denote the same number, however written (0.5, "0.5", "0.50"), are
\* in one OfferSet, and normalizing the line of a key again returns it
\* unchanged.
C15_LineFormattingCoalesces ==
    (/\ prog \in {"build_props_novig", "pairing._pair_outcomes",
                  "odds_api.fetch_player_props"}
     /\ FoldEnded) =>
        /\ \A q \in LineQuotes : Cardinality(HeldAt(q)) = 1
        /\ \A n \in 1..Len(grouped) :
              grouped[n].key.line.t = "dec" =>
                  /\ _normalize_point(AsLine(grouped[n].key.line)) = grouped[n].key.line
                  /\ _norm_point(AsLine(grouped[n].key.line)) = grouped[n].key.line

\* the fold ended on an input that writes one line as 0.5 and as 0.50, with
\* one OfferSet
C15_Witness ==
    /\ prog \in {"build_props_novig", "pairing._pair_outcomes",
                 "odds_api.fetch_player_props"}
    /\ FoldEnded
    /\ \E q \in LineQuotes : \E r \in LineQuotes :
          /\ q.point = NumLine(5, 1) /\ r.point = NumLine(50, 2)
          /\ q.player = r.player /\ q.stat = r.stat
    /\ Len(grouped) = 1

\* the props build_props_novig returns, group after group
RECURSIVE Flatten(_)
Flatten(groups) ==
    IF groups = <<>> THEN <<>> ELSE Head(groups).props \o Flatten(Tail(groups))

PropKey(prop) == [player |-> prop.player, stat |-> prop.stat, line |-> prop.line]

\* a quote of the input that the prop shows on the side
ShownFrom(prop, side, shown) ==
    \E q \in Quotes :
        /\ q.key = PropKey(prop) /\ q.side = side
        /\ q.odds.t = "int" /\ q.odds.v = shown.price /\ q.book = shown.book

\* C16: what build_props_novig returns has exactly one market per
\* normalized key (player, stat, line) that received a quote at a valid
\* price, and a market shows only quotes of exactly its key.
C16_OneMarketPerKey ==
    (prog = "build_props_novig" /\ pc = "done") =>
        LET props == Flatten(out) IN
        /\ \A m \in 1..Len(props) : \A n \in 1..Len(props) :
              PropKey(props[m]) = PropKey(props[n]) => m = n
        /\ {PropKey(props[n]) : n \in 1..Len(props)}
              = {q.key : q \in {r \in Quotes : ValidPrice(r)}}
        /\ \A n \in 1..Len(props) :
              /\ props[n].shop.over.set => ShownFrom(props[n], "over", props[n].shop.over)
              /\ props[n].shop.under.set => ShownFrom(props[n], "under", props[n].shop.under)

\* build_props_novig has returned two markets from three quotes, two of
\* them for one key
C16_Witness ==
    /\ prog = "build_props_novig" /\ pc = "done"
    /\ Len(Flatten(out)) = 2
    /\ Cardinality({q \in Quotes : ValidPrice(q)}) = 3

-----------------------------------------------------------------------------
(* Properties of the sides.                                                *)

\* the side a Yes/No label stands for
YesNoSide(name) ==
    IF name = NULL THEN ""
    ELSE IF Lower(name) = "yes" THEN "over"
    ELSE IF Lower(name) = "no" THEN "under"
    ELSE ""

\* C17: in pairing._pair_outcomes, odds_api._pair_outcomes and
\* props_ncaaf._pair_outcomes, an outcome labelled Yes (No), in any letter
\* case, that names a player at a nonzero integer price is aggregated as
\* the over (under) side of an OfferSet of that player.
C17_YesNoAggregated ==
    (prog \in PairProgs /\ FoldEnded) =>
        LET feed == FeedOf(offers.items) IN
        \A k \in 1..Len(feed) :
            (/\ YesNoSide(feed[k].o.name) # ""
             /\ feed[k].o.description \notin {NULL, ""}
             /\ feed[k].o.price.t = "int" /\ feed[k].o.price.v # 0) =>
                \E n \in 1..Len(grouped) :
                    /\ grouped[n].key.player = feed[k].o.description
                    /\ SideOf(grouped[n], YesNoSide(feed[k].o.name)).set

-----------------------------------------------------------------------------
(* Properties of the method-of-victory markets.                            *)

\* the buckets of the fighter that a book of the event's odds quotes
QuotedBuckets(ev, fighter) ==
    {b \in {"ko", "sub", "dec"} :
        \E n \in 1..Len(EventOddsUfc(ev)) :
            \E k \in 1..Len(EventOddsUfc(ev)[n].markets.items) :
                LET m == EventOddsUfc(ev)[n].markets.items[k] IN
                /\ MatchesMov(m.key)
                /\ \E j \in 1..Len(m.outcomes) :
                      /\ NameHasFighter(m.outcomes[j].name, fighter)
                      /\ _canonical_bucket(m.outcomes[j].name) = b
                      /\ m.outcomes[j].price.t = "int"}

\* the events of the list that have an id
Listed == SelectSeq(offers.items, LAMBDA ev : ev.id # "")

\* the event a returned fight was built from
EventOf(fight) == CHOOSE ev \in Elements(Listed) : ev.id = fight.event_id

\* C18: when fetch_ufc_markets returns, every listed fight is in the result
\* with the moneyline row of each fighter, and the method-of-victory market
\* of a fighter is empty when fewer than two of ko / sub / dec are quoted
\* for the fighter and holds exactly the quoted buckets otherwise.
C18_MovNeedsTwoBuckets ==
    (prog = "fetch_ufc_markets" /\ pc = "done" /\ ~offers.none) =>
        /\ Len(out) = Len(Listed)
        /\ {out[n].event_id : n \in 1..Len(out)} = {ev.id : ev \in Elements(Listed)}
        /\ \A n \in 1..Len(out) : \A i \in 1..2 :
              LET fx == out[n].fighters[i]
                  quoted == QuotedBuckets(EventOf(out[n]), fx.name)
              IN  /\ Len(fx.ml) = 1 /\ fx.ml[1].fighter = fx.name
                  /\ Cardinality(quoted) < 2 => fx.mov.none /\ fx.mov.rows = <<>>
                  /\ Cardinality(quoted) >= 2 =>
                        /\ ~fx.mov.none
                        /\ {fx.mov.rows[k].bucket : k \in 1..Len(fx.mov.rows)} = quoted
                        /\ Len(fx.mov.rows) = Cardinality(quoted)

\* fetch_ufc_markets has returned two fights; in one a fighter has three
\* buckets quoted and the other fighter one bucket and no market
C18_Witness ==
    /\ prog = "fetch_ufc_markets" /\ pc = "done" /\ Len(out) = 2
    /\ \E n \in 1..Len(out) :
          /\ Cardinality(QuotedBuckets(EventOf(out[n]), "Jones")) = 3
          /\ Cardinality(QuotedBuckets(EventOf(out[n]), "Miocic")) = 1
          /\ Len(out[n].fighters[1].mov.rows) = 3
          /\ out[n].fighters[2].mov.none
          /\ Len(out[n].fighters[2].ml) = 1

\* 1e-6 as a float
Millionth == FDiv(FOfInt(1), FOfInt(1000000))

\* abs(sum(probs) - 1.0) <= 1e-6, the sum taken left to right in floats
NearOne(probs) ==
    The({IF FLess(z, FOne) THEN ~FLess(Millionth, FSub(FOne, z))
         ELSE ~FLess(Millionth, FSub(z, FOne))
         : z \in {IF Len(probs) = 2 THEN FAdd(probs[1], probs[2])
                  ELSE The({FAdd(y, probs[3]) : y \in {FAdd(probs[1], probs[2])}})}})

\* the distributions of novig_multiway that sum to one within 1e-6
NearOneTab == {t[2] : t \in {u \in MultiwayTab : Len(u[1]) >= 2 /\ NearOne(u[2])}}

\* the prices the event's odds quote for the fighter's bucket
QuotedPrices(ev, fighter, bucket) ==
    UNION {UNION {{m.outcomes[j].price.v :
                     j \in {i \in 1..Len(m.outcomes) :
                              /\ NameHasFighter(m.outcomes[i].name, fighter)
                              /\ _canonical_bucket(m.outcomes[i].name) = bucket
                              /\ m.outcomes[i].price.t = "int"}}
                  : m \in {x \in Elements(b.markets.items) : MatchesMov(x.key)}}
           : b \in Elements(EventOddsUfc(ev))}

\* C19: in what fetch_ufc_markets returns, the fair probabilities of a
\* method-of-victory market sum to 1.0 within 1e-6, the price of each
\* bucket is the tightest price quoted for that bucket of the fighter, and
\* the probability of each bucket is the implied probability of that
\* bucket's own price over the sum of the implied probabilities of the
\* market's prices, whichever bucket is missing.
C19_MovFairAligned ==
    (prog = "fetch_ufc_markets" /\ pc = "done" /\ ~offers.none) =>
        \A n \in 1..Len(out) : \A i \in 1..2 :
            LET fx == out[n].fighters[i]
                rows == fx.mov.rows
            IN  ~fx.mov.none =>
                  /\ [k \in 1..Len(rows) |-> rows[k].prob] \in NearOneTab
                  /\ \A k \in 1..Len(rows) :
                        /\ rows[k].american
                              \in QuotedPrices(EventOf(out[n]), fx.name, rows[k].bucket)
                        /\ \A p \in QuotedPrices(EventOf(out[n]), fx.name, rows[k].bucket) :
                              Abs(rows[k].american) <= Abs(p)
                        /\ rows[k].prob
                              = novig_multiway([j \in 1..Len(rows) |-> rows[j].american])[k]

\* fetch_ufc_markets has returned a fight in which a fighter has the
\* buckets sub and dec quoted, at different prices, and no ko
C19_Witness ==
    /\ prog = "fetch_ufc_markets" /\ pc = "done"
    /\ \E n \in 1..Len(out) : \E i \in 1..2 :
          LET rows == out[n].fighters[i].mov.rows IN
          /\ Len(rows) = 2
          /\ rows[1].bucket = "sub" /\ rows[2].bucket = "dec"
          /\ rows[1].american # rows[2].american
          /\ rows[1].prob # rows[2].prob

-----------------------------------------------------------------------------
(* Properties of the emitted records.                                      *)

\* the record has the field, as a key of the emitted dict
HasField(rec, field) == field \in DOMAIN rec

\* C20: every prop that build_props_novig returns carries a derivation
\* tag: two_way when both sides of its key were retained, single_sided
\* when one side was.
C20_DerivationTagged ==
    (prog = "build_props_novig" /\ pc = "done") =>
        \A n \in 1..Len(Flatten(out)) :
            LET prop == Flatten(out)[n] IN
            /\ HasField(prop, "derivation")
            /\ prop.derivation = (IF prop.shop.over.set /\ prop.shop.under.set
                                  THEN "two_way" ELSE "single_sided")

-----------------------------------------------------------------------------
(* The conversions between probabilities and American prices:              *)
(* props_ncaaf.prob_to_american and its fallback american_to_prob,         *)
(* app.american_to_prob, routes_ev_plays.implied_prob_from_american and    *)
(* routes_line_shopping.fair_decimal, on binary64.                         *)

\* x * k for a natural k below 2^15
FMulInt(x, k) == The({Normalize(BigMulSmall(u.m, k), u.e, FALSE) : u \in {x}})

\* int(round(x)) for a float 1/2 <= x < 2^30: the nearest integer, ties to
\* even
RoundInt(x) ==
    The({BigToInt(RoundEven(r.m, r.g, r.s))
         : r \in {IF x.e >= 0 THEN [m |-> BigShiftLeft(x.m, x.e), g |-> 0, s |-> FALSE]
                  ELSE ShiftRightGS(x.m, 0 - x.e, FALSE)}})

FHalf == FDiv(FOne, FOfInt(2))

\* props_ncaaf.prob_to_american (lines 22-24): 0 outside (0, 1), else
\* int(round(-100*p/(1-p))) from 0.5 on and int(round(100*(1-p)/p)) below
ProbToAmericanUnsigned(p) ==
    IF FIsZero(p) \/ ~FLess(p, FOne) THEN 0
    ELSE IF ~FLess(p, FHalf)
    THEN RoundInt(FDiv(FMulInt(p, 100), FSub(FOne, p)))
    ELSE RoundInt(FDiv(The({FMulInt(v, 100) : v \in {FSub(FOne, p)}}), p))
prob_to_american(p) ==
    IF FIsZero(p) \/ ~FLess(p, FOne) THEN 0
    ELSE IF ~FLess(p, FHalf)
    THEN 0 - RoundInt(FDiv(FMulInt(p, 100), FSub(FOne, p)))
    ELSE RoundInt(FDiv(The({FMulInt(v, 100) : v \in {FSub(FOne, p)}}), p))

\* the fallback american_to_prob of props_ncaaf (lines 14-16) for an
\* integer price: 100.0/(o+100.0) if o > 0 else (-o)/(100.0 - o)
ncaaf_american_to_prob(odds) ==
    IF odds > 0 THEN FDiv(FOfInt(100), FOfInt(odds + 100))
    ELSE FDiv(FOfInt(0 - odds), FOfInt(100 - odds))

\* app.american_to_prob (lines 1509-1512) for an integer price
app_american_to_prob(odds) ==
    IF odds > 0 THEN FDiv(FOfInt(100), FOfInt(odds + 100))
    ELSE FDiv(FOfInt(0 - odds), FOfInt(100 - odds))

\* routes_ev_plays.implied_prob_from_american (lines 30-33) for an integer
\* price: 100.0/(a+100.0) if a > 0 else abs(a)/(abs(a)+100.0)
ImpliedFromAbs(american) == FDiv(FOfInt(Abs(american)), FOfInt(Abs(american) + 100))
implied_prob_from_american(american) ==
    IF american > 0 THEN FDiv(FOfInt(100), FOfInt(american + 100))
    ELSE FDiv(FOfInt(Abs(american)), FOfInt(Abs(american) + 100))

\* max(min(float(p), 1 - 1e-6), 1e-6) (routes_line_shopping, line 12)
Clamp(p) ==
    The({IF FLess(hi, p) THEN hi ELSE IF FLess(p, Millionth) THEN Millionth ELSE p
         : hi \in {FSub(FOne, Millionth)}})

\* routes_line_shopping.fair_decimal (lines 11-13)
fair_decimal(p) == FDiv(FOne, Clamp(p))

\* the probabilities of the model are the floats k / ProbSteps
ProbSteps == 100

\* the prices of the model are the nonzero multiples of 5 up to MaxPrice
MaxPrice == 250

ConvPrices == {a \in (0 - MaxPrice)..MaxPrice : a # 0 /\ a % 5 = 0}

\* what the conversions give for the probability k / ProbSteps
ProbRow(k) ==
    The({The({[k |-> k, q |-> q, american |-> am,
               back |-> IF am = 0 THEN FZero ELSE ncaaf_american_to_prob(am),
               decimal |-> fair_decimal(q)]
              : am \in {prob_to_american(q)}})
         : q \in {FDiv(FOfInt(k), FOfInt(ProbSteps))}})

\* what the three implementations give for the price
PriceRow(a) ==
    [american |-> a, app |-> app_american_to_prob(a), ev |-> implied_prob_from_american(a),
     ncaaf |-> ncaaf_american_to_prob(a)]

\* the conversions are computed once per input
ProbTab == {ProbRow(k) : k \in 0..ProbSteps}
PriceTab == {PriceRow(a) : a \in ConvPrices}

ConvProgs == {"prob_to_american", "american_to_prob"}

\* offers is the input: the index of a probability, or two prices
ConvInit ==
    /\ prog \in ConvProgs
    /\ offers \in IF prog = "prob_to_american" THEN 0..ProbSteps
                  ELSE ConvPrices \X ConvPrices
    /\ offers2 = offers
    /\ run = 1
    /\ pc = "start"
    /\ cursor = 1
    /\ grouped = <<>>
    /\ out = <<>>
    /\ first = NoResult

\* a probability is converted to its American price, the price back to a
\* probability, and the probability to fair decimal odds
ProbToAmerican ==
    /\ prog = "prob_to_american"
    /\ pc = "start"
    /\ pc' = "done"
    /\ out' = CHOOSE t \in ProbTab : t.k = offers
    /\ UNCHANGED <<prog, offers, offers2, run, cursor, grouped, first>>

\* two prices are converted to probabilities by each implementation
AmericanToProb ==
    /\ prog = "american_to_prob"
    /\ pc = "start"
    /\ pc' = "done"
    /\ out' = <<CHOOSE t \in PriceTab : t.american = offers[1],
                CHOOSE t \in PriceTab : t.american = offers[2]>>
    /\ UNCHANGED <<prog, offers, offers2, run, cursor, grouped, first>>

ConvNext ==
    \/ ProbToAmerican
    \/ AmericanToProb

ConvSpec == ConvInit /\ [][ConvNext]_vars

\* C21: prob_to_american is defined for every probability in [0, 1] and
\* never returns the price 0: from 0.5 on it returns a price of -100 or
\* below, and a price of +100 or above otherwise.
C21_PriceNeverZero ==
    (prog = "prob_to_american" /\ pc = "done") =>
        /\ out.american # 0
        /\ (2 * out.k >= ProbSteps) => out.american <= -100
        /\ (2 * out.k < ProbSteps) => out.american >= 100

\* 0.01 as a float
Hundredth == FDiv(FOne, FOfInt(100))

\* abs(x - y) <= 0.01
WithinHundredth(x, y) ==
    IF FLess(x, y) THEN ~FLess(Hundredth, FSub(y, x)) ELSE ~FLess(Hundredth, FSub(x, y))

\* C22: for every probability q strictly between 0.05 and 0.95, the
\* American price of q converted back to a probability is within 0.01 of q.
C22_RoundTripWithinHundredth ==
    (/\ prog = "prob_to_american" /\ pc = "done"
     /\ 20 * out.k > ProbSteps /\ 20 * out.k < 19 * ProbSteps) =>
        /\ out.american # 0
        /\ WithinHundredth(out.back, out.q)

\* a favorite's probability, 0.8, has been converted to -400 and back
C22_Witness ==
    /\ prog = "prob_to_american" /\ pc = "done"
    /\ 5 * out.k = 4 * ProbSteps
    /\ out.american = -400
    /\ WithinHundredth(out.back, out.q)

\* the quotient the claim names for a price, as numerator and denominator
ExactImplied(a) ==
    IF a > 0 THEN [num |-> 100, den |-> a + 100] ELSE [num |-> Abs(a), den |-> Abs(a) + 100]

\* the float is the quotient to within 10^-4
IsQuotient(x, r) ==
    The({n * r.den - 10000 * r.num <= r.den /\ 10000 * r.num - n * r.den <= r.den
         : n \in {Round4(x)}})

\* C23: for every nonzero integer price, app.american_to_prob,
\* routes_ev_plays.implied_prob_from_american and the props_ncaaf fallback
\* return the same float, which is 100/(p+100) for p > 0 and
\* |p|/(|p|+100) for p < 0; of two prices of the same sign, the lower one
\* (the more negative favorite, the smaller underdog) has the higher
\* probability.
C23_ImpliedAgreesAndMonotone ==
    (prog = "american_to_prob" /\ pc = "done") =>
        /\ \A n \in 1..2 :
              /\ out[n].app = out[n].ev /\ out[n].app = out[n].ncaaf
              /\ IsQuotient(out[n].ev, ExactImplied(out[n].american))
        /\ (offers[1] < offers[2] /\ offers[1] * offers[2] > 0) =>
              /\ FLess(out[2].app, out[1].app)
              /\ FLess(out[2].ev, out[1].ev)
              /\ FLess(out[2].ncaaf, out[1].ncaaf)

\* a favorite at -150 and one at -110, and likewise two underdogs, have
\* been converted
C23_Witness ==
    /\ prog = "american_to_prob" /\ pc = "done"
    /\ offers \in {<<-150, -110>>, <<130, 250>>}
    /\ FLess(out[2].ev, out[1].ev)

\* ---------------------------------------------------------------------
\* app.py: the license session.  A request is handled in one step:
\* require_license runs before the view, then the view itself.  offers is
\* the session (a set of <<name, value>> pairs), offers2 the contents of
\* LICENSE_DB, cursor the "hits" counter of cache_incr and out the request
\* with its response.

MaxHits == 4

RequestKeys == {"", "ABC123", "abc123", "zzz999", "mora-king"}

\* LICENSE_DB: unreadable, or a dict of key -> record (an empty record is falsy)
LicenseDbs ==
    { [readable |-> FALSE, keys |-> {}],
      [readable |-> TRUE, keys |-> {[key |-> "ABC123", truthy |-> TRUE]}],
      [readable |-> TRUE, keys |-> {[key |-> "abc123", truthy |-> TRUE],
                                    [key |-> "zzz999", truthy |-> FALSE]}] }

SessionGet(session, name) == \E p \in session : p[1] = name /\ p[2] # "False"

SessionSet(session, name, value) ==
    {p \in session : p[1] # name} \cup {<<name, value>>}

KeyValid(db, user_key) ==
    \E k \in db.keys : Upper(k.key) = Upper(user_key) /\ k.truthy

public_endpoints ==
    {"home", "how_it_works", "paywall", "paywall_config", "tool", "verify",
     "verify_key", "validate_key", "create_checkout_session", "billing_portal",
     "health", "ping", "static", "api_status", "get_props",
     "filtered_moneylines", "logout", "dashboard", "analytics"}

Response(endpoint, key, status, body) ==
    [endpoint |-> endpoint, key |-> key, status |-> status, body |-> body]

\* before_request: TRUE when the request goes on to its view
require_license(endpoint, session) ==
    endpoint \in public_endpoints \/ SessionGet(session, "licensed")

\* the body shared by dashboard and dashboard_legacy
DashboardView(endpoint, template, user_key) ==
    IF ~require_license(endpoint, offers)
    THEN /\ out' = Response(endpoint, user_key, 302, "paywall")
         /\ UNCHANGED <<offers, cursor>>
    ELSE IF user_key # "" /\ (~offers2.readable \/ ~KeyValid(offers2, user_key))
    THEN \* url_for('index') names no endpoint of the application
         /\ out' = Response(endpoint, user_key, 500, "BuildError")
         /\ UNCHANGED <<offers, cursor>>
    ELSE /\ cursor < MaxHits
         /\ offers' = IF user_key = "" THEN offers
                      ELSE SessionSet(SessionSet(offers, "licensed", "True"),
                                      "license_key", user_key)
         /\ cursor' = cursor + 1
         /\ out' = Response(endpoint, user_key, 200, template)

LicenseInit ==
    /\ prog = "web"
    /\ offers = {}
    /\ offers2 \in LicenseDbs
    /\ run = 1
    /\ pc = "idle"
    /\ cursor = 0
    /\ grouped = <<>>
    /\ out = Response("none", "", 0, "")
    /\ first = NoResult

Dashboard ==
    /\ prog = "web"
    /\ \E user_key \in RequestKeys :
          DashboardView("dashboard", "dashboard.html", user_key)
    /\ UNCHANGED <<prog, offers2, run, pc, grouped, first>>

DashboardLegacy ==
    /\ prog = "web"
    /\ \E user_key \in RequestKeys :
          DashboardView("dashboard_legacy", "dashboard_legacy.html", user_key)
    /\ UNCHANGED <<prog, offers2, run, pc, grouped, first>>

ValidateKey ==
    /\ prog = "web"
    /\ \E key \in RequestKeys :
          LET user_key == Lower(key)
              Grant(level) ==
                  SessionSet(SessionSet(SessionSet(offers, "licensed", "True"),
                                        "license_key", user_key),
                             "access_level", level)
          IN  IF user_key = "mora-king"
              THEN /\ offers' = Grant("creator")
                   /\ out' = Response("validate_key", key, 200, "valid")
              ELSE IF offers2.readable /\ \E k \in offers2.keys : k.key = user_key
              THEN /\ offers' = Grant("premium")
                   /\ out' = Response("validate_key", key, 200, "valid")
              ELSE /\ offers' = offers
                   /\ out' = Response("validate_key", key, 200, "invalid")
    /\ UNCHANGED <<prog, offers2, run, pc, cursor, grouped, first>>

Tool ==
    /\ prog = "web"
    /\ out' = Response("tool", "", 302,
                       IF SessionGet(offers, "licensed") THEN "dashboard"
                       ELSE "paywall")
    /\ UNCHANGED <<prog, offers, offers2, run, pc, cursor, grouped, first>>

Logout ==
    /\ prog = "web"
    /\ offers' = {}
    /\ out' = Response("logout", "", 302, "how_it_works")
    /\ UNCHANGED <<prog, offers2, run, pc, cursor, grouped, first>>

LicenseNext ==
    \/ Dashboard
    \/ DashboardLegacy
    \/ ValidateKey
    \/ Tool
    \/ Logout

LicenseSpec == LicenseInit /\ [][LicenseNext]_vars

\* C24: a /dashboard request from a session that is not licensed and that
\* carries no valid key is redirected to the paywall, never rendered.
C24_DashboardProtected ==
    [][(out'.endpoint = "dashboard" /\ ~SessionGet(offers, "licensed")
        /\ ~(out'.key # "" /\ offers2.readable /\ KeyValid(offers2, out'.key)))
       => (out'.status = 302 /\ out'.body = "paywall")]_vars

\* ---------------------------------------------------------------------
\* app.py: the /player_props route in No-Vig mode (USE_NOVIG_ONLY, the
\* configuration when ENABLE_ENRICHMENT is not "true").  offers is the
\* request, offers2 what the league's fetcher does when called (the list
\* it returns, or that it raises), grouped the normalised league, pc the position
\* in get_props and out the response.

MaxRouteProps == 2

\* a fetched prop: player and fair.prob.over in percent (<<>>: absent)
RouteProps ==
    { [player |-> "Judge", over |-> <<62>>],
      [player |-> "Soto", over |-> <<55>>],
      [player |-> "Ohtani", over |-> <<>>] }

\* what the fetcher of the league does: it raises, or returns a list
RouteFetches ==
    {[raised |-> TRUE, props |-> <<>>]}
        \cup {[raised |-> FALSE, props |-> l] : l \in SeqsUpTo(RouteProps, MaxRouteProps)}

RouteRequests ==
    [league : {NULL, "mlb", "MLB ", "nfl", "CFB", "ncaaf", "ufc", "mma", "nba"},
     date : {NULL, "2025-09-06"}]

_norm_league(league_in) ==
    LET t == Lower(Strip(IF league_in = NULL THEN "" ELSE league_in))
    IN  IF t \in {"ncaa", "cfb", "college_football"} THEN "ncaaf" ELSE t

\* ((p.get("fair") or {}).get("prob") or {}).get("over") or 0.0
OverKey(p) == IF p.over = <<>> THEN 0 ELSE p.over[1]

\* list.sort(key=..., reverse=True): stable, greatest key first
RECURSIVE InsertByOver(_, _)
InsertByOver(sorted, p) ==
    IF sorted = <<>> THEN <<p>>
    ELSE IF OverKey(Head(sorted)) < OverKey(p) THEN <<p>> \o sorted
    ELSE <<Head(sorted)>> \o InsertByOver(Tail(sorted), p)

RECURSIVE SortByOver(_, _)
SortByOver(sorted, props) ==
    IF props = <<>> THEN sorted
    ELSE SortByOver(InsertByOver(sorted, Head(props)), Tail(props))

Json(status, league, body) == [status |-> status, league |-> league, body |-> body]

RouteInit ==
    /\ prog = "get_props"
    /\ offers \in RouteRequests
    /\ offers2 \in RouteFetches
    /\ run = 1
    /\ pc = "start"
    /\ cursor = 1
    /\ grouped = ""
    /\ out = Json(0, "", <<>>)
    /\ first = NoResult

\* lines 1130-1132: the league of the request is normalised
RouteBegin ==
    /\ prog = "get_props"
    /\ pc = "start"
    /\ grouped' = _norm_league(offers.league)
    /\ pc' = "branch"
    /\ UNCHANGED <<prog, offers, offers2, run, cursor, out, first>>

\* lines 1135-1139
NcaafBranch ==
    /\ prog = "get_props"
    /\ pc = "branch"
    /\ grouped = "ncaaf"
    /\ IF offers2.raised THEN pc' = "except" /\ out' = out
       ELSE /\ out' = Json(200, "ncaaf", SortByOver(<<>>, offers2.props))
            /\ pc' = "done"
    /\ UNCHANGED <<prog, offers, offers2, run, cursor, grouped, first>>

\* lines 1142-1144
NflBranch ==
    /\ prog = "get_props"
    /\ pc = "branch"
    /\ grouped = "nfl"
    /\ IF offers2.raised THEN pc' = "except" /\ out' = out
       ELSE out' = Json(200, "nfl", offers2.props) /\ pc' = "done"
    /\ UNCHANGED <<prog, offers, offers2, run, cursor, grouped, first>>

\* lines 1147-1149
UfcBranch ==
    /\ prog = "get_props"
    /\ pc = "branch"
    /\ grouped \in {"ufc", "mma"}
    /\ IF offers2.raised THEN pc' = "except" /\ out' = out
       ELSE out' = Json(200, "ufc", offers2.props) /\ pc' = "done"
    /\ UNCHANGED <<prog, offers, offers2, run, cursor, grouped, first>>

\* line 1152: every other league raises ValueError; the statements after
\* it (the offer fetch and build_props_novig) are never reached
Unsupported ==
    /\ prog = "get_props"
    /\ pc = "branch"
    /\ grouped \notin {"ncaaf", "nfl", "ufc", "mma"}
    /\ pc' = "except"
    /\ UNCHANGED <<prog, offers, offers2, run, cursor, grouped, out, first>>

\* lines 1291-1297
RouteExcept ==
    /\ prog = "get_props"
    /\ pc = "except"
    /\ out' = Json(503, "", <<>>)
    /\ pc' = "done"
    /\ UNCHANGED <<prog, offers, offers2, run, cursor, grouped, first>>

RouteNext ==
    \/ RouteBegin
    \/ NcaafBranch
    \/ NflBranch
    \/ UfcBranch
    \/ Unsupported
    \/ RouteExcept

\* a request handler runs to its response: no step of it waits on another
RouteSpec == RouteInit /\ [][RouteNext]_vars /\ WF_vars(RouteNext)

\* C25: in No-Vig mode a /player_props request for league mlb is answered
\* 200 with the grouped props, never with an error status.
C25_MlbAnswered ==
    (prog = "get_props" /\ pc = "start" /\ _norm_league(offers.league) = "mlb")
        ~> (pc = "done" /\ out.status = 200)

\* ---------------------------------------------------------------------
\* combo_optimizer.py: get_top_combos.  offers is the list of props passed
\* in, offers2 the valid props (each with its edge), grouped the combos
\* built so far and out the list returned.

\* a * b for significands (b below 2^60)
BigMul(a, b) ==
    The({BigAdd(BigAdd(BigMulSmall(u, v[1]), MoveLimbs(BigMulSmall(u, v[2]), 1)),
                BigAdd(MoveLimbs(BigMulSmall(u, v[3]), 2),
                       MoveLimbs(BigMulSmall(u, v[4]), 3)))
         : u \in {a}, v \in {b}})

\* x * y for floats >= 0
FMul(x, y) == The({Normalize(BigMul(u.m, v.m), u.e + v.e, FALSE) : u \in {x}, v \in {y}})

\* a float with its sign: x - y, and -x * k
Signed(neg, x) == [neg |-> neg /\ ~FIsZero(x), abs |-> x]

FDiff(x, y) == IF FLess(x, y) THEN Signed(TRUE, FSub(y, x)) ELSE Signed(FALSE, FSub(x, y))

\* a < b for signed floats
SignedLess(a, b) ==
    IF a.neg /\ b.neg THEN FLess(b.abs, a.abs)
    ELSE IF a.neg THEN TRUE
    ELSE IF b.neg THEN FALSE
    ELSE FLess(a.abs, b.abs)

MaxComboProps == 3

\* props: player_name (NULL: the key is absent), stat, line in tenths,
\* American odds and contextual_hit_rate.hit_rate in percent
ComboProp(player_name, stat, line, odds, hit_rate) ==
    [player_name |-> player_name, stat |-> stat, line |-> line, odds |-> odds,
     hit_rate |-> hit_rate]

ComboProps ==
    { ComboProp("Judge", "batter_hits", 15, -120, 60),
      ComboProp("Judge", "batter_total_bases", 25, 110, 50),
      ComboProp("Soto", "batter_hits", 5, -200, 70),
      ComboProp("Soto", "batter_home_runs", 5, 300, 0),
      ComboProp(NULL, "batter_hits", 5, -110, 52),
      ComboProp("Ohtani", "batter_hits", 15, -1000, 10) }

\* lines 8-34
calculate_edge(prop) ==
    IF prop.hit_rate = 0 \/ prop.odds = 0 THEN Signed(FALSE, FZero)
    ELSE LET implied_prob ==
                 IF prop.odds > 0 THEN FDiv(FOfInt(100), FOfInt(prop.odds + 100))
                 ELSE FDiv(FOfInt(0 - prop.odds), FOfInt((0 - prop.odds) + 100))
             edge == FDiff(FDiv(FOfInt(prop.hit_rate), FOfInt(100)), implied_prob)
         IN  Signed(edge.neg, FMulInt(edge.abs, 100))

\* lines 60-64
american_to_decimal(odds) ==
    IF odds > 0 THEN FAdd(FDiv(FOfInt(odds), FOfInt(100)), FOne)
    ELSE FAdd(FDiv(FOfInt(100), FOfInt(0 - odds)), FOne)

\* lines 36-82
calculate_combo_expected_value(prop1, prop2) ==
    IF prop1.hit_rate = 0 \/ prop2.hit_rate = 0 \/ prop1.odds = 0 \/ prop2.odds = 0
    THEN Signed(FALSE, FZero)
    ELSE LET combo_prob == FMul(FDiv(FOfInt(prop1.hit_rate), FOfInt(100)),
                                FDiv(FOfInt(prop2.hit_rate), FOfInt(100)))
             combo_payout == FMul(american_to_decimal(prop1.odds),
                                  american_to_decimal(prop2.odds))
             expected_value == FDiff(FMul(combo_prob, combo_payout), FOne)
         IN  Signed(expected_value.neg, FMulInt(expected_value.abs, 100))

EdgeTab == {[prop |-> p, edge |-> calculate_edge(p)] : p \in ComboProps}

EvTab == {[prop1 |-> p, prop2 |-> q, ev |-> calculate_combo_expected_value(p, q)]
          : p \in ComboProps, q \in ComboProps}

EdgeOf(p) == (CHOOSE t \in EdgeTab : t.prop = p).edge

EvOf(p, q) == (CHOOSE t \in EvTab : t.prop1 = p /\ t.prop2 = q).ev

\* edge >= -30.0
HasEdge(edge) == ~edge.neg \/ ~FLess(FOfInt(30), edge.abs)

\* expected_value > -50
ShowCombo(ev) == ~ev.neg \/ FLess(ev.abs, FOfInt(50))

\* lines 99-105: the props kept, each with its edge
RECURSIVE ValidProps(_)
ValidProps(props) ==
    IF props = <<>> THEN <<>>
    ELSE LET edge == EdgeOf(Head(props))
         IN  (IF HasEdge(edge) THEN <<[prop |-> Head(props), edge |-> edge]>> ELSE <<>>)
                 \o ValidProps(Tail(props))

\* prop.get(name, default) of a leg, lines 135-154
Leg(v) ==
    [player_name |-> IF v.prop.player_name = NULL THEN "Unknown" ELSE v.prop.player_name,
     stat_type |-> v.prop.stat, line |-> v.prop.line, odds |-> v.prop.odds,
     edge |-> v.edge, contextual_hit_rate |-> v.prop.hit_rate]

Combo(leg1, leg2, ev) == [leg1 |-> leg1, leg2 |-> leg2, expected_value |-> ev]

\* lines 121-158: the combo of valid props i < j, if it is kept
PairCombo(valid, i, j) ==
    IF valid[i].prop.player_name = valid[j].prop.player_name THEN <<>>
    ELSE IF ~ShowCombo(EvOf(valid[i].prop, valid[j].prop)) THEN <<>>
    ELSE <<Combo(Leg(valid[i]), Leg(valid[j]), EvOf(valid[i].prop, valid[j].prop))>>

\* itertools.combinations(valid_props, 2) from the pair (i, j) on
RECURSIVE PairCombos(_, _, _)
PairCombos(valid, i, j) ==
    IF i >= Len(valid) THEN <<>>
    ELSE IF j > Len(valid) THEN PairCombos(valid, i + 1, i + 2)
    ELSE PairCombo(valid, i, j) \o PairCombos(valid, i, j + 1)

\* lines 161-186
demo_combo ==
    Combo([player_name |-> "Demo Player 1", stat_type |-> "Hits", line |-> 15,
           odds |-> 120, edge |-> Signed(FALSE, FDiv(FOfInt(5), FOfInt(2))),
           contextual_hit_rate |-> 55],
          [player_name |-> "Demo Player 2", stat_type |-> "Total Bases", line |-> 25,
           odds |-> 110, edge |-> Signed(FALSE, FDiv(FOfInt(16), FOfInt(5))),
           contextual_hit_rate |-> 48],
          Signed(FALSE, FDiv(FOfInt(17), FOfInt(2))))

\* combos.sort(key=expected_value, reverse=True): stable, greatest first
RECURSIVE InsertCombo(_, _)
InsertCombo(sorted, c) ==
    IF sorted = <<>> THEN <<c>>
    ELSE IF SignedLess(Head(sorted).expected_value, c.expected_value) THEN <<c>> \o sorted
    ELSE <<Head(sorted)>> \o InsertCombo(Tail(sorted), c)

RECURSIVE SortCombos(_, _)
SortCombos(sorted, combos) ==
    IF combos = <<>> THEN sorted
    ELSE SortCombos(InsertCombo(sorted, Head(combos)), Tail(combos))

max_combos == 20

ComboInit ==
    /\ prog = "get_top_combos"
    /\ offers \in SeqsUpTo(ComboProps, MaxComboProps)
    /\ offers2 = <<>>
    /\ run = 1
    /\ pc = "start"
    /\ cursor = 1
    /\ grouped = <<>>
    /\ out = <<>>
    /\ first = NoResult

\* lines 95-119
ComboFilter ==
    /\ prog = "get_top_combos"
    /\ pc = "start"
    /\ IF Len(offers) < 2 THEN pc' = "done" /\ offers2' = offers2
       ELSE /\ offers2' = ValidProps(offers)
            /\ pc' = IF Len(offers2') < 2 THEN "done" ELSE "pairs"
    /\ UNCHANGED <<prog, offers, run, cursor, grouped, out, first>>

\* lines 121-158
ComboPairs ==
    /\ prog = "get_top_combos"
    /\ pc = "pairs"
    /\ grouped' = PairCombos(offers2, 1, 2)
    /\ pc' = "sort"
    /\ UNCHANGED <<prog, offers, offers2, run, cursor, out, first>>

\* lines 160-195
ComboReturn ==
    /\ prog = "get_top_combos"
    /\ pc = "sort"
    /\ LET combos == IF grouped = <<>> THEN <<demo_combo>> ELSE grouped
           sorted == SortCombos(<<>>, combos)
       IN  out' = SubSeq(sorted, 1, Min(Len(sorted), max_combos))
    /\ pc' = "done"
    /\ UNCHANGED <<prog, offers, offers2, run, cursor, grouped, first>>

ComboNext ==
    \/ ComboFilter
    \/ ComboPairs
    \/ ComboReturn

ComboSpec == ComboInit /\ [][ComboNext]_vars

\* the leg shows the player, stat, line and odds of the prop, all present
LegOf(leg, prop) ==
    /\ prop.player_name # NULL
    /\ leg.player_name = prop.player_name
    /\ leg.stat_type = prop.stat
    /\ leg.line = prop.line
    /\ leg.odds = prop.odds

\* C26: every combo returned is built from two props of the input list, of
\* two different players; no leg shows a player, line or price that is not
\* in the input.
C26_CombosFromInput ==
    (prog = "get_top_combos" /\ pc = "done") =>
        \A n \in 1..Len(out) :
            \E i \in 1..Len(offers) : \E j \in 1..Len(offers) :
                /\ i # j
                /\ LegOf(out[n].leg1, offers[i])
                /\ LegOf(out[n].leg2, offers[j])
                /\ offers[i].player_name # offers[j].player_name

\* ---------------------------------------------------------------------
\* props_ufc._collect_mov on the method-of-victory market of one book.
\* offers is the list of <<outcome name, price>> quotes of the market,
\* offers2 the fighter, grouped the dict best after the loop and out the
\* result.

MaxMovQuotes == 2

MovFighters == {"Jones", "Volkov"}

\* the method an outcome of the pool names
MethodOf(name) ==
    CASE name \in {"Jones by KO/TKO", "Volkov by KO/TKO"}         -> "ko"
      [] name \in {"Jones by Submission", "Volkov by Submission"} -> "sub"
      [] name \in {"Jones by Decision", "Volkov by Decision"}     -> "dec"

MovQuotes ==
    {"Jones by KO/TKO", "Volkov by KO/TKO", "Jones by Submission",
     "Volkov by Submission", "Jones by Decision", "Volkov by Decision"}
        \X {104, 130}

MovInit ==
    /\ prog = "_collect_mov"
    /\ offers \in SeqsUpTo(MovQuotes, MaxMovQuotes)
    /\ offers2 \in MovFighters
    /\ run = 1
    /\ pc = "start"
    /\ cursor = 1
    /\ grouped = NoMov
    /\ out = NoMovMarket
    /\ first = NoResult

\* lines 59-80: the loop over the bookmakers, their markets and outcomes
MovCollect ==
    /\ prog = "_collect_mov"
    /\ pc = "start"
    /\ grouped' = MovBest([grouped |-> NoMov, raised |-> FALSE],
                          <<Bookmaker("fanduel", "FanDuel", <<Method(offers)>>)>>,
                          offers2).grouped
    /\ pc' = "collected"
    /\ UNCHANGED <<prog, offers, offers2, run, cursor, out, first>>

\* lines 81-93
MovReturn ==
    /\ prog = "_collect_mov"
    /\ pc = "collected"
    /\ out' = MovMarket(grouped)
    /\ pc' = "done"
    /\ UNCHANGED <<prog, offers, offers2, run, cursor, grouped, first>>

MovNext ==
    \/ MovCollect
    \/ MovReturn

MovSpec == MovInit /\ [][MovNext]_vars

\* C27: the quote kept in a bucket is the price of an outcome that names
\* the method of that bucket; a decision or submission outcome is never
\* placed in ko, whatever the fighter's name.
C27_MovBucketIsMethodNamed ==
    (prog = "_collect_mov" /\ pc \in {"collected", "done"}) =>
        \A b \in {"ko", "sub", "dec"} :
            grouped[b].set =>
                \E n \in 1..Len(offers) :
                    /\ MethodOf(offers[n][1]) = b
                    /\ offers[n][2] = grouped[b].price

\* ---------------------------------------------------------------------
\* The two caches with an in-memory fallback: app.cache_set / cache_get
\* (prog = "app") and cache_ttl.setex / get (prog = "cache_ttl"), on one
\* key.  offers is the Redis server (reachable or not, and what it holds
\* under the key), offers2 the globals redis, redis_healthy and
\* redis_last_check of app, grouped the fallback entry (memory_cache[key]
\* or _mem[key]), first the most recent set, cursor the clock in seconds
\* and out the last call with its result.  An outage makes every command
\* raise; the server keeps its data.

MaxTime == 90

HealthInterval == 30

CacheValues == {"v1", "v2"}

TtlPool == {15, 30}

\* the bytes redis-py returns for a str (app connects without decode_responses)
Bytes(v) == IF v = "v1" THEN "b'v1'" ELSE IF v = "v2" THEN "b'v2'" ELSE v

\* json.dumps(value, separators=(",", ":")) and json.loads
Dumps(v) == IF v = "v1" THEN "\"v1\"" ELSE IF v = "v2" THEN "\"v2\"" ELSE v

Loads(t) == IF t = "\"v1\"" THEN "v1" ELSE IF t = "\"v2\"" THEN "v2" ELSE t

NoEntry == [set |-> FALSE, exp |-> 0, s |-> ""]

Entry(exp, t) == [set |-> TRUE, exp |-> exp, s |-> t]

\* init_redis: the client is kept only if the ping succeeds
init_redis(up) == [redis |-> up, redis_healthy |-> up]

\* check_redis_health: the globals after the call
check_redis_health(g, up, now) ==
    IF now - g.redis_last_check < HealthInterval THEN g
    ELSE IF g.redis /\ up
    THEN [redis |-> TRUE, redis_healthy |-> TRUE, redis_last_check |-> now]
    ELSE [redis |-> init_redis(up).redis, redis_healthy |-> init_redis(up).redis_healthy,
          redis_last_check |-> now]

Call(fn, at, result) == [fn |-> fn, at |-> at, result |-> result]

CacheInit ==
    /\ prog \in {"app", "cache_ttl"}
    /\ offers \in [up : BOOLEAN, entry : {NoEntry}]
    /\ offers2 = [redis |-> init_redis(offers.up).redis,
                  redis_healthy |-> init_redis(offers.up).redis_healthy,
                  redis_last_check |-> 0]
    /\ run = 1
    /\ pc = "idle"
    /\ cursor = HealthInterval
    /\ grouped = NoEntry
    /\ out = Call("none", 0, NULL)
    /\ first = NoEntry

\* the connection to Redis is lost, or comes back
Outage ==
    /\ prog \in {"app", "cache_ttl"}
    /\ offers.up
    /\ offers' = [offers EXCEPT !.up = FALSE]
    /\ UNCHANGED <<prog, offers2, run, pc, cursor, grouped, out, first>>

Recovery ==
    /\ prog \in {"app", "cache_ttl"}
    /\ ~offers.up
    /\ offers' = [offers EXCEPT !.up = TRUE]
    /\ UNCHANGED <<prog, offers2, run, pc, cursor, grouped, out, first>>

Tick ==
    /\ prog \in {"app", "cache_ttl"}
    /\ cursor + HealthInterval \div 2 <= MaxTime
    /\ cursor' = cursor + HealthInterval \div 2
    /\ UNCHANGED <<prog, offers, offers2, run, pc, grouped, out, first>>

\* app.cache_set(key, value)
CacheSet ==
    /\ prog = "app"
    /\ \E value \in CacheValues :
          /\ offers2' = check_redis_health(offers2, offers.up, cursor)
          /\ IF offers2'.redis /\ offers2'.redis_healthy /\ offers.up
             THEN /\ offers' = [offers EXCEPT !.entry = Entry(0, value)]
                  /\ grouped' = grouped
                  /\ out' = Call("cache_set", cursor, "True")
             ELSE /\ grouped' = Entry(0, value)
                  /\ offers' = offers
                  /\ out' = Call("cache_set", cursor, "False")
          /\ first' = Entry(0, value)
    /\ UNCHANGED <<prog, run, pc, cursor>>

\* app.cache_get(key)
CacheGet ==
    /\ prog = "app"
    /\ offers2' = check_redis_health(offers2, offers.up, cursor)
    /\ out' = Call("cache_get", cursor,
                   IF offers2'.redis /\ offers2'.redis_healthy /\ offers.up
                      /\ offers.entry.set
                   THEN Bytes(offers.entry.s)
                   ELSE IF grouped.set THEN grouped.s ELSE NULL)
    /\ UNCHANGED <<prog, offers, run, pc, cursor, grouped, first>>

\* cache_ttl.setex(key, ttl_sec, value), with _USE_REDIS set at import
Setex ==
    /\ prog = "cache_ttl"
    /\ \E value \in CacheValues : \E ttl_sec \in TtlPool :
          /\ IF offers.up
             THEN /\ offers' = [offers EXCEPT !.entry = Entry(cursor + ttl_sec, Dumps(value))]
                  /\ grouped' = grouped
             ELSE /\ grouped' = Entry(cursor + ttl_sec, Dumps(value))
                  /\ offers' = offers
          /\ first' = Entry(cursor + ttl_sec, value)
          /\ out' = Call("setex", cursor, NULL)
    /\ UNCHANGED <<prog, offers2, run, pc, cursor>>

\* cache_ttl.get(key): Redis drops a key once its ttl has elapsed; the
\* fallback entry is dropped when time.time() > exp
Get ==
    /\ prog = "cache_ttl"
    /\ IF offers.up
       THEN /\ out' = Call("get", cursor,
                           IF offers.entry.set /\ cursor < offers.entry.exp
                           THEN Loads(offers.entry.s) ELSE NULL)
            /\ grouped' = grouped
       ELSE IF ~grouped.set
       THEN out' = Call("get", cursor, NULL) /\ grouped' = grouped
       ELSE IF cursor > grouped.exp
       THEN out' = Call("get", cursor, NULL) /\ grouped' = NoEntry
       ELSE out' = Call("get", cursor, Loads(grouped.s)) /\ grouped' = grouped
    /\ UNCHANGED <<prog, offers, offers2, run, pc, cursor, first>>

CacheNext ==
    \/ Outage
    \/ Recovery
    \/ Tick
    \/ CacheSet
    \/ CacheGet
    \/ Setex
    \/ Get

CacheSpec == CacheInit /\ [][CacheNext]_vars

\* C28: a get returns the value of the most recent set of the key (or
\* nothing once it has expired), whatever the outages and recoveries of
\* Redis in between; a value that was overwritten is never returned.
C28_GetReturnsLatestSet ==
    /\ (prog = "app" /\ out.fn = "cache_get") =>
          IF first.set THEN out.result \in {first.s, Bytes(first.s)}
          ELSE out.result = NULL
    /\ (prog = "cache_ttl" /\ out.fn = "get") =>
          \/ out.result = NULL /\ (~first.set \/ out.at >= first.exp)
          \/ first.set /\ out.result = first.s /\ out.at <= first.exp

\* ---------------------------------------------------------------------
\* app.cache_incr called by concurrent request threads while Redis is
\* unreachable.  grouped is memory_cache[key] (0: absent), first its value
\* before the calls, offers2 the globals of app; pc, run and out give each
\* thread its position, the value it read and the value it returned.  A
\* thread may be preempted between any two of its accesses to the dict.

NThreads == 3

Threads == 1..NThreads

IncrInit ==
    /\ prog = "cache_incr"
    /\ offers = [up |-> FALSE, entry |-> NoEntry]
    /\ offers2 = [redis |-> FALSE, redis_healthy |-> FALSE, redis_last_check |-> 0]
    /\ run = [t \in Threads |-> 0]
    /\ pc = [t \in Threads |-> "start"]
    /\ cursor = HealthInterval
    /\ grouped \in {0, 7}
    /\ out = [t \in Threads |-> 0]
    /\ first = grouped

\* line 420: check_redis_health()
IncrCheck ==
    /\ prog = "cache_incr"
    /\ \E t \in Threads :
          /\ pc[t] = "start"
          /\ offers2' = check_redis_health(offers2, offers.up, cursor)
          /\ pc' = [pc EXCEPT ![t] = "read"]
    /\ UNCHANGED <<prog, offers, run, cursor, grouped, out, first>>

\* line 435: memory_cache.get(key, 0)
IncrRead ==
    /\ prog = "cache_incr"
    /\ \E t \in Threads :
          /\ pc[t] = "read"
          /\ ~(offers2.redis /\ offers2.redis_healthy)
          /\ run' = [run EXCEPT ![t] = grouped]
          /\ pc' = [pc EXCEPT ![t] = "write"]
    /\ UNCHANGED <<prog, offers, offers2, cursor, grouped, out, first>>

\* line 435: memory_cache[key] = ... + 1
IncrWrite ==
    /\ prog = "cache_incr"
    /\ \E t \in Threads :
          /\ pc[t] = "write"
          /\ grouped' = run[t] + 1
          /\ pc' = [pc EXCEPT ![t] = "return"]
    /\ UNCHANGED <<prog, offers, offers2, run, cursor, out, first>>

\* line 436: return memory_cache[key]
IncrReturn ==
    /\ prog = "cache_incr"
    /\ \E t \in Threads :
          /\ pc[t] = "return"
          /\ out' = [out EXCEPT ![t] = grouped]
          /\ pc' = [pc EXCEPT ![t] = "done"]
    /\ UNCHANGED <<prog, offers, offers2, run, cursor, grouped, first>>

IncrNext ==
    \/ IncrCheck
    \/ IncrRead
    \/ IncrWrite
    \/ IncrReturn

IncrSpec == IncrInit /\ [][IncrNext]_vars

\* C29: when the n concurrent calls have returned, the counter is exactly
\* n higher than before and the n return values are distinct.
C29_IncrAtomic ==
    (prog = "cache_incr" /\ \A t \in Threads : pc[t] = "done") =>
        /\ grouped = first + NThreads
        /\ \A t \in Threads : \A u \in Threads : t # u => out[t] # out[u]

\* ---------------------------------------------------------------------
\* odds_api.deduplicate_props.  offers is the list of props, grouped the
\* dict unique_props as the sequence of its [key, prop] items in insertion
\* order, cursor the position of the loop and out the list returned.  The
\* line of a prop is the numeral of the feed (n / 10^s), a float in Python.

MaxDedup == 3

DedupProp(player, line, odds) ==
    [player |-> player, stat |-> "batter_hits", line |-> line, odds |-> odds]

DedupProps ==
    {DedupProp("Judge", l, o) : l \in {NumLine(15, 1), NumLine(150, 2)},
                                o \in {-120, -110, 105, 150}}
        \cup { DedupProp("Judge", NumLine(15, 1), 0),
               DedupProp("Judge", NumLine(5, 1), 105),
               DedupProp("Soto", NumLine(15, 1), -110),
               DedupProp("Soto", NumLine(15, 1), 105) }

\* str() of the float a numeral denotes: its shortest digits, so that 1.5
\* and 1.50 print alike; given as digits and the count of decimals
RECURSIVE FloatStr(_, _)
FloatStr(n, s) ==
    IF s > 1 /\ n % 10 = 0 THEN FloatStr(n \div 10, s - 1) ELSE [digits |-> n, decimals |-> s]

\* f"{prop['player']}_{prop['stat']}_{prop['line']}"
DedupKey(prop) == <<prop.player, "_", prop.stat, "_", FloatStr(prop.line.n, prop.line.s)>>

\* line 633, with the branch for negative current odds left out
ReplacesPositive(current_odds, new_odds) == current_odds > 0 /\ new_odds > current_odds

\* line 633
Replaces(current_odds, new_odds) ==
    \/ current_odds > 0 /\ new_odds > current_odds
    \/ current_odds < 0 /\ new_odds > current_odds

\* lines 621-634: unique_props after one prop
DedupStep(unique_props, prop) ==
    IF \A n \in 1..Len(unique_props) : unique_props[n].key # DedupKey(prop)
    THEN Append(unique_props, [key |-> DedupKey(prop), prop |-> prop])
    ELSE [n \in 1..Len(unique_props) |->
            IF unique_props[n].key = DedupKey(prop)
               /\ Replaces(unique_props[n].prop.odds, prop.odds)
            THEN [key |-> unique_props[n].key, prop |-> prop]
            ELSE unique_props[n]]

DedupInit ==
    /\ prog = "deduplicate_props"
    /\ offers \in SeqsUpTo(DedupProps, MaxDedup)
    /\ offers2 = <<>>
    /\ run = 1
    /\ pc = "loop"
    /\ cursor = 1
    /\ grouped = <<>>
    /\ out = <<>>
    /\ first = NoResult

DedupNext ==
    /\ prog = "deduplicate_props"
    /\ pc = "loop"
    /\ cursor <= Len(offers)
    /\ grouped' = DedupStep(grouped, offers[cursor])
    /\ cursor' = cursor + 1
    /\ UNCHANGED <<prog, offers, offers2, run, pc, out, first>>

\* lines 636-638
DedupReturn ==
    /\ prog = "deduplicate_props"
    /\ pc = "loop"
    /\ cursor > Len(offers)
    /\ out' = [n \in 1..Len(grouped) |-> grouped[n].prop]
    /\ pc' = "done"
    /\ UNCHANGED <<prog, offers, offers2, run, cursor, grouped, first>>

DedupLoop ==
    \/ DedupNext
    \/ DedupReturn

DedupSpec == DedupInit /\ [][DedupLoop]_vars

\* the same player, stat and line (as a number)
SameProp(a, b) ==
    /\ a.player = b.player
    /\ a.stat = b.stat
    /\ Thousandths(a.line) = Thousandths(b.line)

\* C30: when every prop has nonzero integer odds, the list returned holds,
\* for each player+stat+line of the input, exactly one prop, a prop of the
\* input whose odds are the greatest among its duplicates, in whatever
\* order the input is.
C30_DedupKeepsGreatest ==
    (/\ prog = "deduplicate_props"
     /\ pc = "done"
     /\ \A k \in 1..Len(offers) : offers[k].odds # 0) =>
        /\ \A n \in 1..Len(out) : \E k \in 1..Len(offers) : out[n] = offers[k]
        /\ \A k \in 1..Len(offers) :
              /\ \E n \in 1..Len(out) : SameProp(out[n], offers[k])
              /\ \A n \in 1..Len(out) :
                    SameProp(out[n], offers[k]) => out[n].odds >= offers[k].odds
        /\ \A n \in 1..Len(out) : \A m \in 1..Len(out) :
              SameProp(out[n], out[m]) => n = m

\* a later duplicate, written with another numeral and at a greater price,
\* has replaced the first prop of its key
C30_Witness ==
    /\ prog = "deduplicate_props"
    /\ pc = "done"
    /\ offers = <<DedupProp("Judge", NumLine(15, 1), -120),
                  DedupProp("Soto", NumLine(15, 1), 105),
                  DedupProp("Judge", NumLine(150, 2), -110)>>
    /\ out = <<DedupProp("Judge", NumLine(150, 2), -110),
               DedupProp("Soto", NumLine(15, 1), 105)>>

====
